---------------------------- MODULE Spec2Model ----------------------------
(***************************************************************************)
(* Model of the access-profile spreadsheet parser,                         *)
(* OpenAccessProfilesXLSX.__init__ of src/access_profile_automation.py     *)
(* (the parser src/main.py runs): the header scan for the category row and *)
(* the heading row, the sub-header row that gives the name column offset,  *)
(* the data-row loop with its positional category cursor, and the nested   *)
(* insertion-ordered store access_profile_dict.                            *)
(*                                                                         *)
(* Seven specifications share the variables:                               *)
(*   Spec        __init__ on 6-column sheets, from the first scan on       *)
(*   SpecWide    the same on 8-column sheets with three or four headings   *)
(*   SpecSelect  __init__ from the choice of the sheet of a workbook on    *)
(*   SpecMapper  CategoryMapper of src/backup/access_profile_automation_v2 *)
(*               building its heading-to-category mapping                  *)
(*   SpecOffset  __init__ on 7-column sheets whose title row names, or     *)
(*               fails to name, the name and filter columns                *)
(*   SpecCompare src/backup/compare.py: OpenAccessProfilesXLSX and then    *)
(*               OpenAccessProfilesXLSXV2 on the same worksheet            *)
(*   SpecRowErrors  the same, with rows whose reading raises in the        *)
(*               loop of _process_data_rows of the second                  *)
(*                                                                         *)
(* A Python string is a sequence of one-character strings, so that         *)
(* lower(), strip() and substring tests are computed and not assumed.      *)
(* A cell is a record: None, or a str with its characters.                 *)
(***************************************************************************)
EXTENDS Integers, Sequences, FiniteSets, TLC

(***************************************************************************)
(* Bounds of the model: the number of rows above the column-title row and  *)
(* the number of rows below it.                                            *)
(***************************************************************************)
MaxHeaderRows == 2

MaxDataRows == 3

(***************************************************************************)
(* Strings the code names.                                                 *)
(***************************************************************************)
sConductor == <<"C", "o", "n", "d", "u", "c", "t", "o", "r">>

sStormContact == <<"s", "t", "o", "r", "m", " ", "C", "o", "n", "t", "a", "c", "t">>

sUC == <<"U", "C">>

sDataManagement == <<"D", "a", "t", "a", "M", "a", "n", "a", "g", "e", "m", "e", "n", "t">>

sDialSp == <<"D", "i", "a", "l", " ">>

sFlow == <<"F", "l", "o", "w">>

sActions == <<"A", "c", "t", "i", "o", "n", "s">>

sAnnouncements == <<"A", "n", "n", "o", "u", "n", "c", "e", "m", "e", "n", "t", "s">>

sMenus == <<"M", "e", "n", "u", "s">>

sAgentGroups == <<"A", "g", "e", "n", "t", " ", "G", "r", "o", "u", "p", "s">>

sCallBarringProfiles == <<"C", "a", "l", "l", " ", "B", "a", "r", "r", "i", "n", "g", " ", "P", "r", "o", "f", "i", "l", "e", "s">>

sQueries == <<"Q", "u", "e", "r", "i", "e", "s">>

sPacingProfiles == <<"P", "a", "c", "i", "n", "g", " ", "P", "r", "o", "f", "i", "l", "e", "s">>

sFlowServices == <<"F", "l", "o", "w", " ", "S", "e", "r", "v", "i", "c", "e", "s">>

sNone == <<"n", "o", "n", "e">>

sNotInUse == <<"n", "o", "t", " ", "i", "n", " ", "u", "s", "e">>

sName == <<"n", "a", "m", "e">>

(***************************************************************************)
(* Cells: openpyxl hands the code None for an empty cell and a str for a   *)
(* text cell (values_only=True).                                           *)
(***************************************************************************)
None == [t |-> "None", s |-> <<>>]

Str(chars) == [t |-> "str", s |-> chars]

IsStr(cell) == cell.t = "str"

(***************************************************************************)
(* str.lower(): every upper-case letter goes to its lower-case letter,     *)
(* every other character stays.                                            *)
(***************************************************************************)
UpperCase == <<"A", "B", "C", "D", "E", "F", "G", "H", "I", "J", "K", "L", "M",
               "N", "O", "P", "Q", "R", "S", "T", "U", "V", "W", "X", "Y", "Z">>

LowerCase == <<"a", "b", "c", "d", "e", "f", "g", "h", "i", "j", "k", "l", "m",
               "n", "o", "p", "q", "r", "s", "t", "u", "v", "w", "x", "y", "z">>

LowerChar(c) ==
    IF \E k \in DOMAIN UpperCase : UpperCase[k] = c
    THEN LowerCase[CHOOSE k \in DOMAIN UpperCase : UpperCase[k] = c]
    ELSE c

Lower(chars) == [k \in DOMAIN chars |-> LowerChar(chars[k])]

(***************************************************************************)
(* `sub in s` on Python strings.                                           *)
(***************************************************************************)
Contains(s, sub) ==
    \E k \in 0..(Len(s) - Len(sub)) : SubSeq(s, k + 1, k + Len(sub)) = sub

(***************************************************************************)
(* Python sequences are 0-based: seq[k], seq[n:] and the IndexError test.  *)
(***************************************************************************)
At(seq, k) == seq[k + 1]

InRange(seq, k) == k >= 0 /\ k < Len(seq)

Drop(seq, n) == SubSeq(seq, n + 1, Len(seq))

NonNone(row) == SelectSeq(row, LAMBDA cell : cell # None)

Range(seq) == {seq[n] : n \in DOMAIN seq}

(***************************************************************************)
(* The keyword lists of the two header scans, the category-boundary        *)
(* headings of the cursor and the inactive operators.                      *)
(***************************************************************************)
CategoryKeywords ==
    {Str(sConductor), Str(sStormContact), Str(sUC), Str(sDataManagement),
     Str(sDialSp), Str(sFlow)}

HeadingKeywords == {Str(sActions), Str(sAnnouncements), Str(sMenus)}

BoundaryHeadings ==
    {Str(sAgentGroups), Str(sCallBarringProfiles), Str(sQueries),
     Str(sPacingProfiles), Str(sFlowServices)}

InactiveOperators == {sNone, sNotInUse}

\* the scan as it would be if it looked at the first non-empty cell only
RowHasKeyword_FirstCell(row, keywords) ==
    NonNone(row) # <<>> /\ NonNone(row)[1] \in keywords

(***************************************************************************)
(* any(cell in keywords for cell in row)                                   *)
(***************************************************************************)
RowHasKeyword(row, keywords) == \E j \in DOMAIN row : row[j] \in keywords

(***************************************************************************)
(* A dict keeps its keys in insertion order: a sequence of (k, v) entries  *)
(* with unique keys. d[k] = v replaces the value of a present key in place *)
(* and appends an absent one.                                              *)
(***************************************************************************)
EmptyDict == <<>>

DKeys(d) == [n \in DOMAIN d |-> d[n].k]

DHas(d, key) == \E n \in DOMAIN d : d[n].k = key

DGet(d, key) == d[CHOOSE n \in DOMAIN d : d[n].k = key].v

\* the dict as it would be if a new key went to the front
DPut_Front(d, key, val) ==
    IF DHas(d, key)
    THEN [n \in DOMAIN d |-> IF d[n].k = key THEN [k |-> key, v |-> val] ELSE d[n]]
    ELSE <<[k |-> key, v |-> val]>> \o d

DPut(d, key, val) ==
    IF DHas(d, key)
    THEN [n \in DOMAIN d |-> IF d[n].k = key THEN [k |-> key, v |-> val] ELSE d[n]]
    ELSE Append(d, [k |-> key, v |-> val])

(***************************************************************************)
(* defaultdict.__getitem__: a missing key is created with an empty value.  *)
(***************************************************************************)
DGetDefault(d, key) == IF DHas(d, key) THEN DGet(d, key) ELSE EmptyDict


\* the store as the filter-less layout keeps it: one fixed key at the filter level
StoreEntry_NoFilterLevel(d, n, f, c, h, pair) ==
    LET fixed == Str(<<"f", "i", "l", "t", "e", "r">>)
        byFilter == DGetDefault(d, n)
        byCategory == DGetDefault(byFilter, fixed)
        byHeading == DGetDefault(byCategory, c)
    IN DPut(d, n, DPut(byFilter, fixed, DPut(byCategory, c, DPut(byHeading, h, pair))))

\* the store as it would be with setdefault: a present entry is left alone
StoreEntry_KeepFirst(d, n, f, c, h, pair) ==
    LET byFilter == DGetDefault(d, n)
        byCategory == DGetDefault(byFilter, f)
        byHeading == DGetDefault(byCategory, c)
    IN DPut(d, n, DPut(byFilter, f, DPut(byCategory, c,
            IF DHas(byHeading, h) THEN byHeading ELSE DPut(byHeading, h, pair))))

(***************************************************************************)
(* The nested store: access_profile_dict[name][filter][category][heading]  *)
(* = [operator, value]. The three outer levels are defaultdicts, so the    *)
(* assignment creates every missing level on its way down.                 *)
(***************************************************************************)
StoreEntry(d, n, f, c, h, pair) ==
    LET byFilter == DGetDefault(d, n)
        byCategory == DGetDefault(byFilter, f)
        byHeading == DGetDefault(byCategory, c)
    IN DPut(d, n, DPut(byFilter, f, DPut(byCategory, c, DPut(byHeading, h, pair))))

(***************************************************************************)
(* access_profile_dict[name][filter] alone: what the assignment has        *)
(* already created when the category subscript raises.                     *)
(***************************************************************************)
Vivify(d, n, f) ==
    LET byFilter == DGetDefault(d, n)
    IN DPut(d, n, DPut(byFilter, f, DGetDefault(byFilter, f)))

(***************************************************************************)
(* Strings of the sheets the model parses.                                 *)
(***************************************************************************)
sTitleName == <<"N", "a", "m", "e">>

sTitleFilter == <<"F", "i", "l", "t", "e", "r">>

sTitleOp == <<"O", "p">>

sTitleValue == <<"V", "a", "l">>

sP1 == <<"P", "1">>

sP2 == <<"P", "2">>

sF1 == <<"F", "1">>

sF2 == <<"F", "2">>

sAllow == <<"A", "l", "l", "o", "w">>

sDeny == <<"D", "e", "n", "y">>

sNoneCap == <<"N", "o", "n", "e">>

sNotInUseCap == <<"N", "o", "t", " ", "I", "n", " ", "U", "s", "e">>

sNonePadded == <<"n", "o", "n", "e", " ">>

sG1 == <<"G", "1">>

sG2 == <<"G", "2">>

sQ1 == <<"Q", "1">>

sQ2 == <<"Q", "2">>

sDash == <<"-">>

(***************************************************************************)
(* The rows of the sheets. Columns: name, filter, then one (operator,      *)
(* value) column pair per heading; the category and heading labels sit on  *)
(* the operator column of their pair.                                      *)
(***************************************************************************)
ColumnTitleRow ==
    <<Str(sTitleName), Str(sTitleFilter), Str(sTitleOp), Str(sTitleValue),
      Str(sTitleOp), Str(sTitleValue)>>

BlankRow == [j \in DOMAIN ColumnTitleRow |-> None]

CategoryRow == <<None, None, Str(sUC), None, Str(sFlow), None>>

HeadingRow == <<None, None, Str(sActions), None, Str(sQueries), None>>

\* a row holding a heading keyword and a category keyword
MixedRow == <<None, None, Str(sActions), None, Str(sFlow), None>>

HeaderRowPool == {BlankRow, CategoryRow, HeadingRow, MixedRow}

DataRow(n, f, op1, val1, op2, val2) ==
    <<n, f, Str(op1), Str(val1), Str(op2), Str(val2)>>

DataRowPool ==
    { DataRow(Str(sP1), Str(sF1), sAllow, sG1, sDeny, sQ1),
      DataRow(Str(sP1), Str(sF1), sDeny, sG2, sNone, sDash),
      DataRow(Str(sP1), Str(sF2), sDeny, sG1, sAllow, sQ2),
      DataRow(Str(sP1), Str(sF1), sNoneCap, sDash, sNotInUseCap, sDash),
      DataRow(Str(sP2), Str(sF1), sAllow, sG2, sNonePadded, sQ1),
      DataRow(Str(<<>>), Str(sF1), sAllow, sG1, sAllow, sQ1),
      BlankRow }

SeqsUpTo(S, n) == UNION {[1..k -> S] : k \in 0..n}

(***************************************************************************)
(* The sheets: up to MaxHeaderRows rows, the column-title row, up to       *)
(* MaxDataRows rows.                                                       *)
(***************************************************************************)
Sheets ==
    { h \o <<ColumnTitleRow>> \o d :
        h \in SeqsUpTo(HeaderRowPool, MaxHeaderRows),
        d \in SeqsUpTo(DataRowPool, MaxDataRows) }

(***************************************************************************)
(* State.                                                                  *)
(*   sheet, debug        the worksheet rows (1-based, as openpyxl numbers  *)
(*                       them) and the debug argument                      *)
(*   pc                  the loop __init__ is in: "select" (the choice of  *)
(*                       the sheet), "categories", "headings",             *)
(*                       "subheader", "rows", "pairs" (the inner loop over *)
(*                       the headings of one row), "sample" (the debug     *)
(*                       block), "done", "raised"                          *)
(*   it                  the row the running iter_rows yields next         *)
(*   current_row .. cat_index, access_profile_dict                         *)
(*                       the variables of the code                         *)
(*   error               the exception that left __init__                  *)
(*   workbook, sheetname, active                                           *)
(*                       the sheets of the workbook (title and rows), the  *)
(*                       sheetname argument, the number of the active sheet*)
(*   category_row, heading_row, decoded, eot_row                           *)
(*                       history: the rows the two scans stopped at, the   *)
(*                       rows the data loop went on to decode, the row it  *)
(*                       stopped at for an empty name (0: none)            *)
(***************************************************************************)
VARIABLES sheet, debug, pc, it, current_row, categories, headings, offset,
          name, filter, row, i, cat_index, access_profile_dict, error,
          category_row, heading_row, decoded, eot_row,
          workbook, sheetname, active,
          mapper_pc, mapper_categories, mapper_headings, col_idx,
          categories_positions, headings_positions, heading_to_category,
          item, lookup, mapper_error, warnings,
          v2_access_profile_dict, v2_filter, data_row_idx, processed_count, error_count

\* the state of a CategoryMapper of the backup parser (described with its actions)
mapper == <<mapper_pc, mapper_categories, mapper_headings, col_idx,
            categories_positions, headings_positions, heading_to_category,
            item, lookup, mapper_error, warnings>>

\* the state of __init__ of OpenAccessProfilesXLSX
parser == <<debug, pc, it, current_row, categories, headings, offset,
            name, filter, row, i, cat_index, access_profile_dict, error,
            category_row, heading_row, decoded, eot_row>>

\* the workbook load_workbook returned, its active sheet, the sheetname argument
selection == <<workbook, sheetname, active>>

\* the state of _process_data_rows of the backup parser (described with its actions)
process_data_rows ==
    <<v2_access_profile_dict, v2_filter, data_row_idx, processed_count, error_count>>

vars == <<sheet, parser, selection, mapper, process_data_rows>>

\* what no loop of __init__ assigns
input == <<sheet, debug, selection, mapper, process_data_rows>>

rowVars == <<name, filter, row, i, cat_index>>

Unbound == 0 - 1

\* an exception: its type, the text of its message and the values formatted into it
NoError == [type |-> "", msg |-> "", args |-> <<>>]

(***************************************************************************)
(* sheet.iter_rows(min_row=m): openpyxl takes `min_row or 1`, and yields   *)
(* the rows m .. max_row.                                                  *)
(***************************************************************************)
IterRows(min_row) == IF min_row = 0 THEN 1 ELSE min_row

max_row == Len(sheet)

\* the variables of __init__ before its first loop
Fresh ==
    /\ it = IterRows(0)
    /\ current_row = 0
    /\ categories = <<>>
    /\ headings = <<>>
    /\ offset = Unbound
    /\ name = None
    /\ filter = None
    /\ row = <<>>
    /\ i = 0
    /\ cat_index = 0
    /\ access_profile_dict = EmptyDict
    /\ error = NoError
    /\ category_row = 0
    /\ heading_row = 0
    /\ decoded = <<>>
    /\ eot_row = 0

\* no CategoryMapper is built: __init__ of OpenAccessProfilesXLSX uses none
NoMapper ==
    /\ mapper_pc = "none"
    /\ mapper_categories = <<>>
    /\ mapper_headings = <<>>
    /\ col_idx = 0
    /\ categories_positions = EmptyDict
    /\ headings_positions = EmptyDict
    /\ heading_to_category = EmptyDict
    /\ item = 0
    /\ lookup = <<>>
    /\ mapper_error = NoError
    /\ warnings = <<>>
    /\ v2_access_profile_dict = EmptyDict
    /\ v2_filter = EmptyDict
    /\ data_row_idx = 0
    /\ processed_count = 0
    /\ error_count = 0

sSheet1 == <<"S", "h", "e", "e", "t", "1">>

\* the sheet is the only one of its workbook and no sheet name is asked for
OnlySheet ==
    /\ workbook = <<[title |-> sSheet1, rows |-> sheet]>>
    /\ sheetname = None
    /\ active = 1

Init ==
    /\ sheet \in Sheets
    /\ debug \in BOOLEAN
    /\ pc = "categories"
    /\ Fresh
    /\ OnlySheet
    /\ NoMapper

Raise(type, msg) ==
    /\ pc' = "raised"
    /\ error' = [type |-> type, msg |-> msg, args |-> <<>>]

(***************************************************************************)
(* One iteration of the first loop: the category scan.                     *)
(***************************************************************************)
ScanCategoryRow ==
    /\ pc = "categories"
    /\ it <= max_row
    /\ current_row' = current_row + 1
    /\ IF RowHasKeyword(sheet[it], CategoryKeywords)
       THEN /\ categories' = NonNone(sheet[it])
            /\ category_row' = it
            /\ IF categories' = <<>>
               THEN /\ Raise("ValueError", "No categories found in the Excel sheet. Is correct sheet selected?")
                    /\ it' = it
               ELSE /\ pc' = "headings"
                    /\ it' = IterRows(current_row')
                    /\ error' = error
       ELSE /\ it' = it + 1
            /\ UNCHANGED <<categories, category_row, pc, error>>
    /\ UNCHANGED <<input, headings, offset, rowVars, access_profile_dict,
                   heading_row, decoded, eot_row>>

(***************************************************************************)
(* The first loop ran out of rows: categories is still [].                 *)
(***************************************************************************)
CategoriesExhausted ==
    /\ pc = "categories"
    /\ it > max_row
    /\ Raise("ValueError", "No categories found in the Excel sheet. Is correct sheet selected?")
    /\ UNCHANGED <<input, it, current_row, categories, headings, offset, rowVars,
                   access_profile_dict, category_row, heading_row, decoded, eot_row>>

(***************************************************************************)
(* One iteration of the second loop: the heading scan.                     *)
(***************************************************************************)
ScanHeadingRow ==
    /\ pc = "headings"
    /\ it <= max_row
    /\ current_row' = current_row + 1
    /\ IF RowHasKeyword(sheet[it], HeadingKeywords)
       THEN /\ headings' = NonNone(sheet[it])
            /\ heading_row' = it
            /\ pc' = "subheader"
            /\ it' = IterRows(current_row')
       ELSE /\ it' = it + 1
            /\ UNCHANGED <<headings, heading_row, pc>>
    /\ UNCHANGED <<input, categories, offset, rowVars, access_profile_dict, error,
                   category_row, decoded, eot_row>>

(***************************************************************************)
(* The second loop ran out of rows: self.headings was never assigned. The  *)
(* debug print reads it; without debug the code goes on to the next loop.  *)
(***************************************************************************)
HeadingsExhausted ==
    /\ pc = "headings"
    /\ it > max_row
    /\ IF debug
       THEN /\ Raise("AttributeError", "'OpenAccessProfilesXLSX' object has no attribute 'headings'")
            /\ it' = it
       ELSE /\ pc' = "subheader"
            /\ it' = IterRows(current_row)
            /\ error' = error
    /\ UNCHANGED <<input, current_row, categories, headings, offset, rowVars,
                   access_profile_dict, category_row, heading_row, decoded, eot_row>>

(***************************************************************************)
(* The offset of the name column: the cells of the sub-header row passed   *)
(* before the first non-empty one whose lower-cased text contains 'name';  *)
(* the whole row length when there is none.                                *)
(***************************************************************************)
IsNameTitle(cell) ==
    cell # None /\ cell # Str(<<>>) /\ Contains(Lower(cell.s), sName)

NameOffset(r) ==
    IF \E j \in DOMAIN r : IsNameTitle(r[j])
    THEN (CHOOSE j \in DOMAIN r :
            IsNameTitle(r[j]) /\ \A k \in 1..(j - 1) : ~IsNameTitle(r[k])) - 1
    ELSE Len(r)

\* the third loop as it would be if it did not count the row it reads
SubHeaderRow_NotCounted ==
    /\ pc = "subheader"
    /\ it <= max_row
    /\ offset' = NameOffset(sheet[it])
    /\ pc' = "rows"
    /\ it' = IterRows(current_row)
    /\ UNCHANGED <<input, current_row, categories, headings, rowVars,
                   access_profile_dict, error, category_row, heading_row, decoded,
                   eot_row>>

(***************************************************************************)
(* The third loop: one row, the sub-header, read for the offset only.      *)
(***************************************************************************)
SubHeaderRow ==
    /\ pc = "subheader"
    /\ it <= max_row
    /\ current_row' = current_row + 1
    /\ offset' = NameOffset(sheet[it])
    /\ pc' = "rows"
    /\ it' = IterRows(current_row')
    /\ UNCHANGED <<input, categories, headings, rowVars, access_profile_dict, error,
                   category_row, heading_row, decoded, eot_row>>

(***************************************************************************)
(* No row is left for the third loop: offset stays unbound.                *)
(***************************************************************************)
SubHeaderExhausted ==
    /\ pc = "subheader"
    /\ it > max_row
    /\ pc' = "rows"
    /\ it' = IterRows(current_row)
    /\ UNCHANGED <<input, current_row, categories, headings, offset, rowVars,
                   access_profile_dict, error, category_row, heading_row, decoded,
                   eot_row>>

\* the end-of-table test as it would be without the '' case
IsEndOfTable_NoneOnly(n) == n = None

(***************************************************************************)
(* name == None or name == '': the end-of-table test of the data loop.     *)
(***************************************************************************)
IsEndOfTable(n) == n = None \/ n = Str(<<>>)

AfterRows == IF debug THEN "sample" ELSE "done"

(***************************************************************************)
(* The head of one iteration of the data loop: slice the row at the        *)
(* offset, take name and filter, stop at an empty name, else reset the     *)
(* category cursor and enter the loop over the headings.                   *)
(***************************************************************************)
StartRow ==
    /\ pc = "rows"
    /\ it <= max_row
    /\ current_row' = current_row + 1
    /\ LET r == Drop(sheet[it], offset) IN
       IF offset = Unbound
       THEN /\ Raise("NameError", "name 'offset' is not defined")
            /\ UNCHANGED <<it, rowVars, decoded, eot_row>>
       ELSE IF ~InRange(r, 0) \/ ~InRange(r, 1)
       THEN /\ Raise("IndexError", "tuple index out of range")
            /\ UNCHANGED <<it, rowVars, decoded, eot_row>>
       ELSE /\ name' = At(r, 0)
            /\ filter' = At(r, 1)
            /\ row' = Drop(r, 2)
            /\ error' = error
            /\ IF IsEndOfTable(name')
               THEN /\ pc' = AfterRows
                    /\ eot_row' = it
                    /\ UNCHANGED <<it, i, cat_index, decoded>>
               ELSE /\ cat_index' = 0
                    /\ i' = 0
                    /\ decoded' = Append(decoded, it)
                    /\ it' = it + 1
                    /\ pc' = IF Len(headings) = 0 THEN "rows" ELSE "pairs"
                    /\ eot_row' = eot_row
    /\ UNCHANGED <<input, categories, headings, offset, access_profile_dict,
                   category_row, heading_row>>

(***************************************************************************)
(* The data loop ran out of rows.                                          *)
(***************************************************************************)
RowsExhausted ==
    /\ pc = "rows"
    /\ it > max_row
    /\ pc' = AfterRows
    /\ UNCHANGED <<input, it, current_row, categories, headings, offset, rowVars,
                   access_profile_dict, error, category_row, heading_row, decoded,
                   eot_row>>

\* the cursor as it would be if it never moved
AdvanceCursor_Never(cursor, heading) == cursor

\* the cursor as it would be if it moved on every heading
AdvanceCursor_OnEveryHeading(cursor, heading) == cursor + 1

(***************************************************************************)
(* The cursor moves on a category-boundary heading, before the heading is  *)
(* stored.                                                                 *)
(***************************************************************************)
AdvanceCursor(cursor, heading) ==
    IF heading \in BoundaryHeadings THEN cursor + 1 ELSE cursor

\* the test as it would be if every operator were kept
KeepsOperator_Always(operator) == TRUE

(***************************************************************************)
(* row[2*i].lower() not in ['none', 'not in use']                          *)
(***************************************************************************)
KeepsOperator(operator) == Lower(operator.s) \notin InactiveOperators

\* the pair as it would be read off the row with its empty cells removed
PairOf_Compacted(cells, n) ==
    LET solid == NonNone(cells) \o [k \in DOMAIN cells |-> None]
    IN <<At(solid, 2 * n), At(solid, 2 * n + 1)>>

(***************************************************************************)
(* [row[2*i], row[2*i+1]]: the pair stored for heading i.                  *)
(***************************************************************************)
PairOf(cells, n) == <<At(cells, 2 * n), At(cells, 2 * n + 1)>>

(***************************************************************************)
(* One iteration of the loop over the headings: heading i of the row.      *)
(***************************************************************************)
DecodePair ==
    /\ pc = "pairs"
    /\ LET heading == At(headings, i)
           cursor == AdvanceCursor(cat_index, heading)
       IN
       /\ cat_index' = cursor
       /\ IF ~InRange(row, 2 * i)
          THEN /\ Raise("IndexError", "tuple index out of range")
               /\ UNCHANGED <<i, access_profile_dict>>
          ELSE IF ~IsStr(At(row, 2 * i))
          THEN /\ Raise("AttributeError", "'NoneType' object has no attribute 'lower'")
               /\ UNCHANGED <<i, access_profile_dict>>
          ELSE IF ~KeepsOperator(At(row, 2 * i))
          THEN /\ i' = i + 1
               /\ pc' = IF i' < Len(headings) THEN "pairs" ELSE "rows"
               /\ UNCHANGED <<access_profile_dict, error>>
          ELSE IF ~InRange(row, 2 * i + 1)
          THEN /\ Raise("IndexError", "tuple index out of range")
               /\ UNCHANGED <<i, access_profile_dict>>
          ELSE IF ~InRange(categories, cursor)
          THEN /\ Raise("IndexError", "list index out of range")
               /\ access_profile_dict' = Vivify(access_profile_dict, name, filter)
               /\ i' = i
          ELSE /\ access_profile_dict' =
                     StoreEntry(access_profile_dict, name, filter,
                                At(categories, cursor), heading, PairOf(row, i))
               /\ i' = i + 1
               /\ pc' = IF i' < Len(headings) THEN "pairs" ELSE "rows"
               /\ error' = error
    /\ UNCHANGED <<input, it, current_row, categories, headings, offset, name,
                   filter, row, category_row, heading_row, decoded, eot_row>>

(***************************************************************************)
(* The debug block after the data loop: list(dict.keys())[0] of the store. *)
(***************************************************************************)
SampleData ==
    /\ pc = "sample"
    /\ IF access_profile_dict = EmptyDict
       THEN Raise("IndexError", "list index out of range")
       ELSE pc' = "done" /\ error' = error
    /\ UNCHANGED <<input, it, current_row, categories, headings, offset, rowVars,
                   access_profile_dict, category_row, heading_row, decoded, eot_row>>

Next ==
    \/ ScanCategoryRow
    \/ CategoriesExhausted
    \/ ScanHeadingRow
    \/ HeadingsExhausted
    \/ SubHeaderRow
    \/ SubHeaderExhausted
    \/ StartRow
    \/ RowsExhausted
    \/ DecodePair
    \/ SampleData

Spec == Init /\ [][Next]_vars

(***************************************************************************)
(* The same parser on sheets with three (operator, value) column pairs,    *)
(* where a label of the two header rows need not sit on the operator       *)
(* column of its pair: category rows of two and of three categories,       *)
(* heading rows of three and of four headings with none, one or two        *)
(* category-boundary headings, and data rows with an inactive operator, an *)
(* empty value cell and an empty operator cell.                            *)
(***************************************************************************)
MaxWideRows == 2

sP3 == <<"P", "3">>

WideTitleRow == ColumnTitleRow \o <<Str(sTitleOp), Str(sTitleValue)>>

WideCategoryRow == <<None, None, Str(sUC), None, None, Str(sFlow), None, None>>

WideHeadingRow ==
    <<None, None, Str(sActions), Str(sMenus), None, Str(sQueries), None, None>>

WideHeaderRowPool ==
    { WideCategoryRow,
      <<None, None, Str(sConductor), None, Str(sUC), None, Str(sFlow), None>>,
      WideHeadingRow,
      <<None, None, Str(sActions), None, Str(sAgentGroups), None, Str(sQueries), None>>,
      <<None, None, Str(sActions), Str(sMenus), Str(sQueries), Str(sAnnouncements),
        None, None>> }

WideDataRow(n, f, pairs) == <<Str(n), Str(f)>> \o pairs

ScenarioRow ==
    WideDataRow(sP1, sF1, <<Str(sAllow), Str(sG1), Str(sNone), Str(sDash),
                            Str(sDeny), Str(sQ1)>>)

WideDataRowPool ==
    { ScenarioRow,
      WideDataRow(sP2, sF1, <<Str(sDeny), None, Str(sAllow), None,
                              Str(sAllow), Str(sQ2)>>),
      WideDataRow(sP3, sF1, <<Str(sAllow), Str(sG1), None, None,
                              Str(sDeny), Str(sQ1)>>),
      WideDataRow(sP1, sF2, <<Str(sDeny), Str(sG2), Str(sAllow), Str(sG1),
                              Str(sNotInUseCap), Str(sDash)>>),
      WideDataRow(sP2, sF2, <<Str(sNone), Str(sDash), Str(sNotInUseCap), Str(sDash),
                              Str(sAllow), Str(sQ1)>>),
      [j \in DOMAIN WideTitleRow |-> None] }

WideSheets ==
    { h \o <<WideTitleRow>> \o d :
        h \in SeqsUpTo(WideHeaderRowPool, MaxHeaderRows),
        d \in SeqsUpTo(WideDataRowPool, MaxWideRows) }

InitWide ==
    /\ sheet \in WideSheets
    /\ debug \in BOOLEAN
    /\ pc = "categories"
    /\ Fresh
    /\ OnlySheet
    /\ NoMapper

SpecWide == InitWide /\ [][Next]_vars

(***************************************************************************)
(* __init__ on 7-column sheets whose name column is the first or the       *)
(* second: sub-header rows with the title holding 'name' in either place,  *)
(* in any letter case, twice or not at all, and data rows with a cell      *)
(* before the name or an empty filter cell.                                *)
(***************************************************************************)
MaxOffsetRows == 2

OffsetSheets ==
    LET op == Str(sTitleOp)
        val == Str(sTitleValue)
        flt == Str(sTitleFilter)
        header_rows ==
            { <<None, None, None, Str(sUC), None, Str(sFlow), None>>,
              <<None, None, None, Str(sActions), None, Str(sQueries), None>> }
        sub_headers ==
            { <<None, Str(sTitleName), flt, op, val, op, val>>,
              <<Str(sTitleName), Str(<<"F", "i", "l", "t", "e", "r", " ", "N", "a", "m", "e">>),
                op, val, op, val, None>>,
              <<Str(<<"I", "d">>), Str(<<"P", "r", "o", "f", "i", "l", "e", " ", "N", "A", "M", "E">>),
                flt, op, val, op, val>>,
              <<None, Str(<<"P", "r", "o", "f", "i", "l", "e">>), flt, op, val, op, val>> }
        data_rows ==
            { <<None, Str(sP1), Str(sF1), Str(sAllow), Str(sG1), Str(sDeny), Str(sQ1)>>,
              <<Str(sP2), Str(sF1), Str(sAllow), Str(sG1), Str(sDeny), Str(sQ1), None>>,
              <<None, Str(sP1), None, Str(sAllow), Str(sG1), Str(sDeny), Str(sQ1)>>,
              <<Str(sP1), None, Str(sAllow), Str(sG1), Str(sDeny), Str(sQ1), None>>,
              <<Str(<<"X">>), Str(sP2), Str(sF2), Str(sDeny), Str(sG1), Str(sAllow),
                Str(sQ1)>> }
    IN { h \o t \o d :
           h \in SeqsUpTo(header_rows, MaxHeaderRows),
           t \in SeqsUpTo(sub_headers, 1),
           d \in SeqsUpTo(data_rows, MaxOffsetRows) }

InitOffset ==
    /\ sheet \in OffsetSheets
    /\ debug \in BOOLEAN
    /\ pc = "categories"
    /\ Fresh
    /\ OnlySheet
    /\ NoMapper

SpecOffset == InitOffset /\ [][Next]_vars

(***************************************************************************)
(* __init__ from the choice of the sheet on (lines 33-45): workbooks of up *)
(* to MaxSheets sheets with different titles, any of them active, and a    *)
(* sheetname argument that is None, a title, or no title of any sheet.     *)
(***************************************************************************)
MaxSheets == 2

sMarker == <<"a", "c", "c", "e", "s", "s", "p", "r", "o", "f", "i", "l", "e", "s">>

SheetTitles ==
    { <<"A", "c", "c", "e", "s", "s", "P", "r", "o", "f", "i", "l", "e", "s">>,
      sSheet1,
      <<"N", "o", "t", "e", "s">> }

sheetnames == [n \in DOMAIN workbook |-> workbook[n].title]

Worksheets ==
    LET data_row == DataRow(Str(sP1), Str(sF1), sAllow, sG1, sDeny, sQ1)
        other_row == DataRow(Str(sP2), Str(sF2), sDeny, sG2, sAllow, sQ2)
    IN { <<CategoryRow, HeadingRow, ColumnTitleRow, data_row>>,
         <<CategoryRow, HeadingRow, ColumnTitleRow, other_row>>,
         <<HeadingRow, ColumnTitleRow, data_row>>,
         <<CategoryRow, ColumnTitleRow, data_row>>,
         <<CategoryRow, HeadingRow>> }

Workbooks ==
    { wb \in UNION { [1..n -> [title : SheetTitles, rows : Worksheets]] :
                       n \in 1..MaxSheets } :
        \A a \in DOMAIN wb : \A b \in DOMAIN wb : wb[a].title = wb[b].title => a = b }

InitSelect ==
    /\ workbook \in Workbooks
    /\ sheetname \in {None} \cup {Str(title) : title \in SheetTitles}
                            \cup {Str(<<"M", "i", "s", "s", "i", "n", "g">>)}
    /\ active \in DOMAIN workbook
    /\ sheet = <<>>
    /\ debug \in BOOLEAN
    /\ pc = "select"
    /\ Fresh
    /\ NoMapper

\* the first sheet whose lower-cased title contains the marker; 0 when there is none
FirstMarked ==
    LET marked == {n \in DOMAIN workbook : Contains(Lower(workbook[n].title), sMarker)}
    IN IF marked = {} THEN 0 ELSE CHOOSE n \in marked : \A m \in marked : n <= m

\* workbook[sheetname]: the sheet of that very title; 0 for KeyError
Titled(title) ==
    IF \E n \in DOMAIN workbook : workbook[n].title = title
    THEN CHOOSE n \in DOMAIN workbook : workbook[n].title = title
    ELSE 0

(***************************************************************************)
(* The if / elif / else of lines 33-45: the sheet chosen; 0 when the name  *)
(* asked for is no title (KeyError) or the loop found no title to its      *)
(* liking.                                                                 *)
(***************************************************************************)
Chosen ==
    IF Len(workbook) = 1 THEN active
    ELSE IF sheetname # None THEN Titled(sheetname.s)
    ELSE FirstMarked

(***************************************************************************)
(* Lines 33-54 up to the call sheet.iter_rows of the first loop, which     *)
(* finds the local variable sheet unbound when the for loop of line 41     *)
(* assigned none.                                                          *)
(***************************************************************************)
SelectSheet ==
    /\ pc = "select"
    /\ IF Chosen # 0
       THEN /\ sheet' = workbook[Chosen].rows
            /\ pc' = "categories"
            /\ error' = error
       ELSE IF Len(workbook) # 1 /\ sheetname # None
       THEN /\ pc' = "raised"
            /\ error' = [type |-> "ValueError",
                         msg |-> "Sheet '{sheetname}' not found in the workbook. Available sheets: {workbook.sheetnames}",
                         args |-> <<sheetname.s, sheetnames>>]
            /\ sheet' = sheet
       ELSE /\ pc' = "raised"
            /\ error' = [type |-> "UnboundLocalError",
                         msg |-> "cannot access local variable 'sheet' where it is not associated with a value",
                         args |-> <<>>]
            /\ sheet' = sheet
    /\ UNCHANGED <<debug, selection, mapper, process_data_rows, it, current_row,
                   categories, headings,
                   offset, rowVars, access_profile_dict, category_row, heading_row,
                   decoded, eot_row>>

NextSelect ==
    \/ SelectSheet
    \/ Next

SpecSelect == InitSelect /\ [][NextSelect]_vars

(***************************************************************************)
(* The backup parser, src/backup/access_profile_automation_v2.py: what     *)
(* AccessProfileParser.parse_excel hands to the CategoryMapper, and the    *)
(* CategoryMapper itself.                                                  *)
(*                                                                         *)
(* Strings of its keyword lists.                                           *)
(***************************************************************************)
sDial == <<"D", "i", "a", "l">>

sParameters == <<"P", "a", "r", "a", "m", "e", "t", "e", "r", "s">>

sServices == <<"S", "e", "r", "v", "i", "c", "e", "s">>

category_keywords ==
    {sConductor, sStormContact, sUC, sDataManagement, sDial, sFlow}

heading_keywords == {sActions, sAnnouncements, sMenus, sParameters, sServices}

\* the safety limit of the two scans of _find_structure_rows
ScanLimit == 10

(***************************************************************************)
(* str.strip() (the sheets of the model have no white space but ' ').      *)
(***************************************************************************)
StripStr(chars) ==
    LET solid == {k \in DOMAIN chars : chars[k] # " "}
    IN IF solid = {} THEN <<>>
       ELSE SubSeq(chars,
                   CHOOSE k \in solid : \A m \in solid : k <= m,
                   CHOOSE k \in solid : \A m \in solid : k >= m)

(***************************************************************************)
(* pd.read_excel(header=None): the rows up to the last row with data; an   *)
(* empty cell and '' are NaN in the frame.                                 *)
(***************************************************************************)
NotNa(cell) == cell # None /\ cell # Str(<<>>)

DataFrame(ws) ==
    LET full == {n \in DOMAIN ws : \E j \in DOMAIN ws[n] : NotNa(ws[n][j])}
    IN IF full = {} THEN <<>>
       ELSE SubSeq(ws, 1, CHOOSE n \in full : \A m \in full : n >= m)

\* [str(val).strip() for val in row.values if pd.notna(val)]
RowValues(r) ==
    LET solid == SelectSeq(r, NotNa)
    IN [n \in DOMAIN solid |-> StripStr(solid[n].s)]

(***************************************************************************)
(* _find_structure_rows: the index (0-based, as the frame counts) of the   *)
(* first row within first..last having a keyword among its values;         *)
(* Unbound for None.                                                       *)
(***************************************************************************)
\* any(keyword in row_values for keyword in keywords)
HasKeywordValue(r, keywords) ==
    \E j \in DOMAIN r : NotNa(r[j]) /\ StripStr(r[j].s) \in keywords

FindRow(df, keywords, first, last) ==
    LET found == {idx \in first..last :
                    idx < Len(df) /\ HasKeywordValue(df[idx + 1], keywords)}
    IN IF found = {} THEN Unbound
       ELSE CHOOSE idx \in found : \A other \in found : idx <= other

categories_row(df) == FindRow(df, category_keywords, 0, ScanLimit)

headings_row(df) ==
    LET above == categories_row(df)
    IN IF above = Unbound THEN Unbound
       ELSE FindRow(df, heading_keywords, above + 1, above + ScanLimit)

(***************************************************************************)
(* ws.cell(row, column).value of the active worksheet (1-based); a cell    *)
(* below the last row is empty.                                            *)
(***************************************************************************)
max_column(ws) == IF ws = <<>> THEN 1 ELSE Len(ws[1])

WsCell(ws, r, c) == IF r \in DOMAIN ws THEN ws[r][c] ELSE None

\* value is not None and str(value).strip()
HasLabel(value) == value # None /\ StripStr(value.s) # <<>>

(***************************************************************************)
(* _extract_categories and _extract_headings, on the rows that             *)
(* _find_structure_rows located.                                           *)
(***************************************************************************)
ExtractCategories(ws, row_idx) ==
    LET cells == SelectSeq([c \in 1..max_column(ws) |-> WsCell(ws, row_idx + 1, c)],
                           HasLabel)
    IN [n \in DOMAIN cells |-> Str(StripStr(cells[n].s))]

ExtractHeadings(df, row_idx) ==
    [n \in DOMAIN RowValues(df[row_idx + 1]) |-> Str(RowValues(df[row_idx + 1])[n])]

(***************************************************************************)
(* parse_excel returns: both rows are located, both lists are non-empty,   *)
(* and _extract_data finds a row below the column-title row.               *)
(***************************************************************************)
ParseExcelReturns(ws) ==
    LET df == DataFrame(ws)
        located == headings_row(df)
    IN /\ df # <<>>
       /\ located # Unbound
       /\ ExtractCategories(ws, categories_row(df)) # <<>>
       /\ ExtractHeadings(df, located) # <<>>
       /\ located + 2 < Len(df)

(***************************************************************************)
(* sorted(categories_positions.items(), key=lambda x: x[1]): the entries   *)
(* by column; the sort is stable.                                          *)
(***************************************************************************)
SortedByColumn(d) ==
    LET before(n) == {m \in DOMAIN d : d[m].v < d[n].v \/ (d[m].v = d[n].v /\ m < n)}
    IN [k \in DOMAIN d |-> d[CHOOSE n \in DOMAIN d : Cardinality(before(n)) = k - 1]]

(***************************************************************************)
(* The test of the loop of _find_category_for_column on the k-th sorted    *)
(* category: col_pos <= heading_col < next_col_pos, and col_pos <=         *)
(* heading_col on the last one.                                            *)
(***************************************************************************)
InRangeOfCategory(sorted, k, heading_col) ==
    IF k < Len(sorted)
    THEN sorted[k].v <= heading_col /\ heading_col < sorted[k + 1].v
    ELSE sorted[k].v <= heading_col

(***************************************************************************)
(* _find_category_for_column: the first sorted category that passes the    *)
(* test; the first sorted category when none does. (Its two raises need an *)
(* empty dict or a column below 1, which _build_mapping never passes.)     *)
(***************************************************************************)
find_category_for_column(heading_col, positions) ==
    LET sorted == SortedByColumn(positions)
        hits == {k \in DOMAIN sorted : InRangeOfCategory(sorted, k, heading_col)}
    IN IF hits # {}
       THEN sorted[CHOOSE k \in hits : \A other \in hits : k <= other].k
       ELSE sorted[1].k

(***************************************************************************)
(* The sheets the mapper is built on: an optional first row (blank, or a   *)
(* banner), a category row and a heading row with labels on any of the     *)
(* four columns after name and filter, the column-title row, one data row. *)
(***************************************************************************)
MapperSheets ==
    LET banner == <<Str(<<"T", "E", "A", "M">>), None, None, None, None, None>>
        padded == Str(<<"A", "c", "t", "i", "o", "n", "s", " ">>)
        rows(labels) ==
            { <<None, None>> \o cells :
                cells \in [1..(Len(ColumnTitleRow) - 2) -> labels] }
        category_rows == rows({None, Str(sUC), Str(sFlow)})
        heading_rows ==
            rows({None, Str(sActions), Str(sQueries)})
                \cup {<<None, None, padded, None, Str(sActions), None>>}
        data_row == DataRow(Str(sP1), Str(sF1), sAllow, sG1, sDeny, sQ1)
    IN { ws \in { above \o <<c, h, ColumnTitleRow, data_row>> :
                    above \in {<<>>, <<BlankRow>>, <<banner>>},
                    c \in category_rows, h \in heading_rows } :
           ParseExcelReturns(ws) }

\* __init__ of OpenAccessProfilesXLSX is not running
NoParser == debug = FALSE /\ pc = "none" /\ Fresh

(***************************************************************************)
(* State of the mapper.                                                    *)
(*   sheet               wb.active, the worksheet it reads                 *)
(*   mapper_pc           "new", "category_positions", "heading_positions", *)
(*                       "build_mapping" (the loop over the items of       *)
(*                       headings_positions), "ready", "raised"            *)
(*   mapper_categories, mapper_headings                                    *)
(*                       self.categories, self.headings                    *)
(*   col_idx, categories_positions, headings_positions                     *)
(*                       as in the code                                    *)
(*   heading_to_category the mapping being built, then self.               *)
(*                       heading_to_category                               *)
(*   item                the item of headings_positions the loop is at     *)
(*   lookup              the last call of get_category_for_heading: its    *)
(*                       argument and what it returned or raised           *)
(*   mapper_error        the exception that left the constructor           *)
(*   warnings            the warnings recorded                             *)
(*   v2_access_profile_dict, v2_filter                                     *)
(*                       access_profile_dict and filter of                 *)
(*                       OpenAccessProfilesXLSXV2                          *)
(*   data_row_idx        row_idx of the loop over the data rows, 0         *)
(*                       before the first data row was looked for          *)
(*   processed_count, error_count                                          *)
(*                       as in the code                                    *)
(***************************************************************************)
InitMapper ==
    /\ sheet \in MapperSheets
    /\ NoParser
    /\ OnlySheet
    /\ mapper_pc = "new"
    /\ mapper_categories = <<>>
    /\ mapper_headings = <<>>
    /\ col_idx = 0
    /\ categories_positions = EmptyDict
    /\ headings_positions = EmptyDict
    /\ heading_to_category = EmptyDict
    /\ item = 0
    /\ lookup = <<>>
    /\ mapper_error = NoError
    /\ warnings = <<>>
    /\ v2_access_profile_dict = EmptyDict
    /\ v2_filter = EmptyDict
    /\ data_row_idx = 0
    /\ processed_count = 0
    /\ error_count = 0

MapperRaise(type, msg) ==
    /\ mapper_pc' = "raised"
    /\ mapper_error' = [type |-> type, msg |-> msg, args |-> <<>>]

(***************************************************************************)
(* CategoryMapper(categories, headings, file_path) as _parse_file calls    *)
(* it, up to the call of _build_mapping.                                   *)
(***************************************************************************)
NewCategoryMapper ==
    /\ mapper_pc = "new"
    /\ LET df == DataFrame(sheet)
           cats == ExtractCategories(sheet, categories_row(df))
           heads == ExtractHeadings(df, headings_row(df))
       IN IF cats = <<>>
          THEN /\ MapperRaise("ValueError", "Categories must be a non-empty list")
               /\ UNCHANGED <<mapper_categories, mapper_headings, col_idx>>
          ELSE IF heads = <<>>
          THEN /\ MapperRaise("ValueError", "Headings must be a non-empty list")
               /\ UNCHANGED <<mapper_categories, mapper_headings, col_idx>>
          ELSE /\ mapper_categories' = cats
               /\ mapper_headings' = heads
               /\ col_idx' = 1
               /\ mapper_pc' = "category_positions"
               /\ mapper_error' = mapper_error
    /\ UNCHANGED <<sheet, parser, selection, process_data_rows,
                   categories_positions, headings_positions,
                   heading_to_category, item, lookup, warnings>>

(***************************************************************************)
(* The body of the loops of _get_category_positions and                    *)
(* _get_heading_positions: positions[str(value).strip()] = col_idx for a   *)
(* cell with a label.                                                      *)
(***************************************************************************)
RecordPosition(positions, value, column) ==
    IF HasLabel(value)
    THEN DPut(positions, Str(StripStr(value.s)), column)
    ELSE positions

(***************************************************************************)
(* _get_category_positions: one column of row 1.                           *)
(***************************************************************************)
GetCategoryPosition ==
    /\ mapper_pc = "category_positions"
    /\ col_idx <= max_column(sheet)
    /\ categories_positions' =
          RecordPosition(categories_positions, WsCell(sheet, 1, col_idx), col_idx)
    /\ col_idx' = col_idx + 1
    /\ UNCHANGED <<sheet, parser, selection, process_data_rows,
                   mapper_pc, mapper_categories, mapper_headings,
                   headings_positions, heading_to_category, item, lookup,
                   mapper_error, warnings>>

GotCategoryPositions ==
    /\ mapper_pc = "category_positions"
    /\ col_idx > max_column(sheet)
    /\ mapper_pc' = "heading_positions"
    /\ col_idx' = 1
    /\ UNCHANGED <<sheet, parser, selection, process_data_rows,
                   mapper_categories, mapper_headings,
                   categories_positions, headings_positions, heading_to_category,
                   item, lookup, mapper_error, warnings>>

(***************************************************************************)
(* _get_heading_positions: one column of row 2.                            *)
(***************************************************************************)
GetHeadingPosition ==
    /\ mapper_pc = "heading_positions"
    /\ col_idx <= max_column(sheet)
    /\ headings_positions' =
          RecordPosition(headings_positions, WsCell(sheet, 2, col_idx), col_idx)
    /\ col_idx' = col_idx + 1
    /\ UNCHANGED <<sheet, parser, selection, process_data_rows,
                   mapper_pc, mapper_categories, mapper_headings,
                   categories_positions, heading_to_category, item, lookup,
                   mapper_error, warnings>>

(***************************************************************************)
(* Both dicts are read: _build_mapping refuses an empty one, else starts   *)
(* the loop over the items of headings_positions.                          *)
(***************************************************************************)
GotHeadingPositions ==
    /\ mapper_pc = "heading_positions"
    /\ col_idx > max_column(sheet)
    /\ IF categories_positions = EmptyDict
       THEN /\ MapperRaise("ValueError", "Failed to build category mapping: No category positions found")
            /\ item' = item
       ELSE IF headings_positions = EmptyDict
       THEN /\ MapperRaise("ValueError", "Failed to build category mapping: No heading positions found")
            /\ item' = item
       ELSE /\ mapper_pc' = "build_mapping"
            /\ item' = 1
            /\ mapper_error' = mapper_error
    /\ UNCHANGED <<sheet, parser, selection, process_data_rows,
                   mapper_categories, mapper_headings, col_idx,
                   categories_positions, headings_positions, heading_to_category,
                   lookup, warnings>>

(***************************************************************************)
(* One iteration of the loop of _build_mapping: mapping[heading] =         *)
(* _find_category_for_column(heading_col, categories_positions).           *)
(***************************************************************************)
MapHeading ==
    /\ mapper_pc = "build_mapping"
    /\ heading_to_category' =
          DPut(heading_to_category, headings_positions[item].k,
               find_category_for_column(headings_positions[item].v,
                                        categories_positions))
    /\ item' = item + 1
    /\ mapper_pc' = IF item' <= Len(headings_positions) THEN "build_mapping" ELSE "ready"
    /\ UNCHANGED <<sheet, parser, selection, process_data_rows,
                   mapper_categories, mapper_headings, col_idx,
                   categories_positions, headings_positions, lookup, mapper_error,
                   warnings>>

(***************************************************************************)
(* self.categories[-1]: the default of heading_to_category.get.            *)
(***************************************************************************)
DefaultCategory(cats) == cats[Len(cats)]

(***************************************************************************)
(* get_category_for_heading(heading), called with a heading of the list    *)
(* the mapper was given, or with ''.                                       *)
(***************************************************************************)
GetCategoryForHeading ==
    /\ mapper_pc = "ready"
    /\ \E heading \in Range(mapper_headings) \cup {Str(<<>>)} :
          lookup' =
             IF heading = Str(<<>>)
             THEN <<[heading |-> heading, raised |-> TRUE, category |-> None]>>
             ELSE IF DHas(heading_to_category, heading)
             THEN <<[heading |-> heading, raised |-> FALSE,
                     category |-> DGet(heading_to_category, heading)]>>
             ELSE <<[heading |-> heading, raised |-> FALSE,
                     category |-> DefaultCategory(mapper_categories)]>>
    /\ UNCHANGED <<sheet, parser, selection, process_data_rows,
                   mapper_pc, mapper_categories, mapper_headings,
                   col_idx, categories_positions, headings_positions,
                   heading_to_category, item, mapper_error, warnings>>

NextMapper ==
    \/ NewCategoryMapper
    \/ GetCategoryPosition
    \/ GotCategoryPositions
    \/ GetHeadingPosition
    \/ GotHeadingPositions
    \/ MapHeading
    \/ GetCategoryForHeading

SpecMapper == InitMapper /\ [][NextMapper]_vars

(***************************************************************************)
(* OpenAccessProfilesXLSXV2 of the backup parser, as compare_json_outputs  *)
(* runs it: on the workbook OpenAccessProfilesXLSX has just parsed.        *)
(*   mapper_pc           goes on from "parse" (parse_excel) over the       *)
(*                       values of the mapper to "rows" (the loop of       *)
(*                       _process_data_rows), then "parsed" or "raised"    *)
(*   v2_access_profile_dict, v2_filter                                     *)
(*                       self.access_profile_dict (name -> category ->     *)
(*                       heading -> [operator, value]) and self.filter     *)
(*   data_row_idx        row_idx of the loop of _process_data_rows         *)
(*   processed_count, error_count                                          *)
(*                       as in the code                                    *)
(*   mapper_error        the innermost exception; __init__ hands it on     *)
(*                       wrapped in RuntimeError                           *)
(***************************************************************************)
MaxCompareRows == 2

sTeamPrefix == <<"T", "E", "A", "M", " ", "-">>

\* str.startswith
StartsWith(chars, prefix) ==
    Len(chars) >= Len(prefix) /\ SubSeq(chars, 1, Len(prefix)) = prefix

(***************************************************************************)
(* The sheets both parsers are given: names in column C, as the search for *)
(* the first data row expects them, under none, one or both header rows,   *)
(* with or without a blank row on top; a value cell left empty, a name     *)
(* without the prefix, a blank row.                                        *)
(***************************************************************************)
CompareSheets ==
    LET empty == [j \in DOMAIN WideTitleRow |-> None]
        category == <<None, None, None, None, Str(sUC), None, Str(sFlow), None>>
        heading == <<None, None, None, None, Str(sActions), None, Str(sQueries), None>>
        title == <<None, None, Str(sTitleName), Str(sTitleFilter), Str(sTitleOp),
                   Str(sTitleValue), Str(sTitleOp), Str(sTitleValue)>>
        teamA == Str(sTeamPrefix \o <<" ", "A">>)
        teamB == Str(sTeamPrefix \o <<" ", "B">>)
        data ==
            { <<None, None, teamA, Str(sF1), Str(sAllow), Str(sG1), Str(sDeny), Str(sQ1)>>,
              <<None, None, teamB, Str(sF1), Str(sAllow), None, Str(sDeny), Str(sQ1)>>,
              <<None, None, teamA, Str(sF2), Str(sNone), Str(sDash), Str(sAllow), Str(sQ2)>>,
              <<None, None, Str(sP1), Str(sF1), Str(sAllow), Str(sG1), Str(sDeny), Str(sQ1)>>,
              empty }
    IN { h \o t \o d :
           h \in {<<>>, <<category>>, <<heading>>, <<category, heading>>,
                  <<empty, category, heading>>},
           t \in {<<>>, <<title>>},
           d \in SeqsUpTo(data, MaxCompareRows) }

InitCompare ==
    /\ sheet \in CompareSheets
    /\ debug \in BOOLEAN
    /\ pc = "categories"
    /\ Fresh
    /\ OnlySheet
    /\ mapper_pc = "parse"
    /\ mapper_categories = <<>>
    /\ mapper_headings = <<>>
    /\ col_idx = 0
    /\ categories_positions = EmptyDict
    /\ headings_positions = EmptyDict
    /\ heading_to_category = EmptyDict
    /\ item = 0
    /\ lookup = <<>>
    /\ mapper_error = NoError
    /\ warnings = <<>>
    /\ v2_access_profile_dict = EmptyDict
    /\ v2_filter = EmptyDict
    /\ data_row_idx = 0
    /\ processed_count = 0
    /\ error_count = 0

(***************************************************************************)
(* parse_excel and the three tests of _parse_file on what it returns,      *)
(* once OpenAccessProfilesXLSX() has returned.                             *)
(***************************************************************************)
ParseExcel ==
    /\ mapper_pc = "parse"
    /\ pc = "done"
    /\ IF ParseExcelReturns(sheet)
       THEN mapper_pc' = "new" /\ mapper_error' = mapper_error
       ELSE MapperRaise("ValueError", "Failed to parse Excel file")
    /\ UNCHANGED <<sheet, parser, selection, process_data_rows, mapper_categories,
                   mapper_headings, col_idx, categories_positions, headings_positions,
                   heading_to_category, item, lookup, warnings>>

(***************************************************************************)
(* The head of _process_data_rows: the first of the rows 1..99 whose cell  *)
(* in column C starts with 'TEAM -'.                                       *)
(***************************************************************************)
FindDataStart ==
    /\ mapper_pc = "ready"
    /\ LET last == IF max_row < 100 THEN max_row ELSE 99
           found == {r \in 1..last :
                       /\ WsCell(sheet, r, 3) # None
                       /\ StartsWith(StripStr(WsCell(sheet, r, 3).s), sTeamPrefix)}
       IN IF max_row < 3
          THEN /\ MapperRaise("ValueError", "Failed to initialize Excel processing: Worksheet has insufficient rows")
               /\ data_row_idx' = data_row_idx
          ELSE IF found = {}
          THEN /\ MapperRaise("ValueError", "Failed to initialize Excel processing: Could not find data start row (looking for 'TEAM -' prefix)")
               /\ data_row_idx' = data_row_idx
          ELSE /\ data_row_idx' = CHOOSE r \in found : \A other \in found : r <= other
               /\ mapper_pc' = "rows"
               /\ mapper_error' = mapper_error
    /\ UNCHANGED <<sheet, parser, selection, mapper_categories, mapper_headings, col_idx,
                   categories_positions, headings_positions, heading_to_category, item,
                   lookup, warnings, v2_access_profile_dict, v2_filter,
                   processed_count, error_count>>

\* self.access_profile_dict[name][category][heading] = [operator, value]
StoreEntryV2(d, n, c, h, pair) ==
    LET byCategory == DGetDefault(d, n)
        byHeading == DGetDefault(byCategory, c)
    IN DPut(d, n, DPut(byCategory, c, DPut(byHeading, h, pair)))

(***************************************************************************)
(* The loop over the headings of one row, from heading k on: a pair the    *)
(* compacted row is too short for is passed over, and so is a heading      *)
(* whose lookup raises (the inner except); the operator and the value are  *)
(* stripped, and the category is the mapper's, not the cursor's.           *)
(***************************************************************************)
RECURSIVE DecodeRowV2(_, _, _, _)
DecodeRowV2(d, n, cells, k) ==
    IF k >= Len(mapper_headings) THEN d
    ELSE LET heading == At(mapper_headings, k)
             operator == StripStr(At(cells, 2 * k).s)
             value == StripStr(At(cells, 2 * k + 1).s)
             category == IF DHas(heading_to_category, heading)
                         THEN DGet(heading_to_category, heading)
                         ELSE DefaultCategory(mapper_categories)
         IN IF 2 * k + 1 < Len(cells)
               /\ Lower(operator) \notin {sNone, sNotInUse}
               /\ heading # Str(<<>>)
            THEN DecodeRowV2(StoreEntryV2(d, n, category, heading,
                                          <<Str(operator), Str(value)>>),
                             n, cells, k + 1)
            ELSE DecodeRowV2(d, n, cells, k + 1)

(***************************************************************************)
(* One iteration of the loop over the rows: the row without its None       *)
(* cells, name and filter its first two cells, stripped. Nothing in the    *)
(* try block outside the inner try raises on cells that are None or str,   *)
(* so error_count stays as it is and no warning is printed.                *)
(***************************************************************************)
ProcessRow ==
    /\ mapper_pc = "rows"
    /\ data_row_idx <= max_row
    /\ LET row_no_none == NonNone(sheet[data_row_idx])
           n == StripStr(row_no_none[1].s)
           f == StripStr(row_no_none[2].s)
       IN IF Len(row_no_none) < 2 \/ n = <<>> \/ f = <<>>
          THEN UNCHANGED <<v2_access_profile_dict, v2_filter, processed_count>>
          ELSE /\ v2_filter' = DPut(v2_filter, Str(n), Str(f))
               /\ v2_access_profile_dict' =
                     DecodeRowV2(v2_access_profile_dict, Str(n), Drop(row_no_none, 2), 0)
               /\ processed_count' = processed_count + 1
    /\ data_row_idx' = data_row_idx + 1
    /\ UNCHANGED <<sheet, parser, selection, mapper, error_count>>

(***************************************************************************)
(* After the loop: no row processed is an error, a count of row errors is  *)
(* printed when there is one, and _parse_file refuses an empty store.      *)
(***************************************************************************)
EndOfRows ==
    /\ mapper_pc = "rows"
    /\ data_row_idx > max_row
    /\ IF processed_count = 0
       THEN /\ MapperRaise("ValueError", "No data rows were successfully processed")
            /\ warnings' = warnings
       ELSE /\ warnings' = IF error_count > 0
                           THEN Append(warnings, [rows |-> error_count])
                           ELSE warnings
            /\ IF v2_access_profile_dict = EmptyDict
               THEN MapperRaise("ValueError", "No access profiles were successfully parsed")
               ELSE mapper_pc' = "parsed" /\ mapper_error' = mapper_error
    /\ UNCHANGED <<sheet, parser, selection, process_data_rows, mapper_categories,
                   mapper_headings, col_idx, categories_positions, headings_positions,
                   heading_to_category, item, lookup>>

NextCompare ==
    \/ Next
    \/ ParseExcel
    \/ NewCategoryMapper
    \/ GetCategoryPosition
    \/ GotCategoryPositions
    \/ GetHeadingPosition
    \/ GotHeadingPositions
    \/ MapHeading
    \/ FindDataStart
    \/ ProcessRow
    \/ EndOfRows

SpecCompare == InitCompare /\ [][NextCompare]_vars

(***************************************************************************)
(* The handler of the loop over the rows (except Exception at line 559).   *)
(* The statements it guards that can raise are those that read the row     *)
(* (ws[row_idx], cell.value, str) at lines 520-533, all of them before the *)
(* first assignment, so a row that raises leaves the store, the filters    *)
(* and processed_count alone. None and str cells never raise there: the    *)
(* exception is the library's, taken here as a choice of the environment.  *)
(***************************************************************************)
MaxErrorRows == 11

MaxRowWarnings == 10

RowErrorSheets ==
    LET empty == [j \in DOMAIN WideTitleRow |-> None]
        category == <<None, None, None, None, Str(sUC), None, Str(sFlow), None>>
        heading == <<None, None, None, None, Str(sActions), None, Str(sQueries), None>>
        title == <<None, None, Str(sTitleName), Str(sTitleFilter), Str(sTitleOp),
                   Str(sTitleValue), Str(sTitleOp), Str(sTitleValue)>>
        teamA == <<None, None, Str(sTeamPrefix \o <<" ", "A">>), Str(sF1), Str(sAllow),
                   Str(sG1), Str(sDeny), Str(sQ1)>>
    IN { <<category, heading, title>> \o [j \in 1..n |-> teamA] \o last :
           n \in 1..MaxErrorRows, last \in {<<>>, <<empty>>} }

InitRowErrors ==
    /\ sheet \in CompareSheets \cup RowErrorSheets
    /\ debug \in BOOLEAN
    /\ pc = "categories"
    /\ Fresh
    /\ OnlySheet
    /\ mapper_pc = "parse"
    /\ mapper_categories = <<>>
    /\ mapper_headings = <<>>
    /\ col_idx = 0
    /\ categories_positions = EmptyDict
    /\ headings_positions = EmptyDict
    /\ heading_to_category = EmptyDict
    /\ item = 0
    /\ lookup = <<>>
    /\ mapper_error = NoError
    /\ warnings = <<>>
    /\ v2_access_profile_dict = EmptyDict
    /\ v2_filter = EmptyDict
    /\ data_row_idx = 0
    /\ processed_count = 0
    /\ error_count = 0

RowError ==
    /\ mapper_pc = "rows"
    /\ data_row_idx <= max_row
    /\ error_count' = error_count + 1
    /\ warnings' = IF error_count + 1 <= MaxRowWarnings
                   THEN Append(warnings, [row |-> data_row_idx])
                   ELSE warnings
    /\ data_row_idx' = data_row_idx + 1
    /\ UNCHANGED <<sheet, parser, selection, v2_access_profile_dict, v2_filter,
                   processed_count, mapper_categories, mapper_headings, col_idx,
                   categories_positions, headings_positions, heading_to_category,
                   item, lookup, mapper_error, mapper_pc>>

NextRowErrors ==
    \/ NextCompare
    \/ RowError

SpecRowErrors == InitRowErrors /\ [][NextRowErrors]_vars

(***************************************************************************)
(* json.dumps(access_profile_dict): an object of objects of objects of     *)
(* objects of 2-element arrays, the keys in the order of the dicts; a key  *)
(* that is None is written "null".                                         *)
(***************************************************************************)
JsonKey(cell) == IF cell = None THEN <<"n", "u", "l", "l">> ELSE cell.s

\* a str is written as a string, None as null
JsonValue(cell) ==
    IF cell = None THEN [t |-> "null", s |-> <<>>] ELSE [t |-> "string", s |-> cell.s]

JsonPair(pair) == <<JsonValue(pair[1]), JsonValue(pair[2])>>

JsonHeadings(d) ==
    [n \in DOMAIN d |-> [k |-> JsonKey(d[n].k), v |-> JsonPair(d[n].v)]]

JsonCategories(d) ==
    [n \in DOMAIN d |-> [k |-> JsonKey(d[n].k), v |-> JsonHeadings(d[n].v)]]

JsonFilters(d) ==
    [n \in DOMAIN d |-> [k |-> JsonKey(d[n].k), v |-> JsonCategories(d[n].v)]]

to_json ==
    [n \in DOMAIN access_profile_dict |->
        [k |-> JsonKey(access_profile_dict[n].k),
         v |-> JsonFilters(access_profile_dict[n].v)]]

\* to_json of the backup parser: one level less, the filter being kept apart
v2_to_json ==
    [n \in DOMAIN v2_access_profile_dict |->
        [k |-> JsonKey(v2_access_profile_dict[n].k),
         v |-> JsonCategories(v2_access_profile_dict[n].v)]]

(***************************************************************************)
(* to_csv: the list csv of lines 173-178, the title row and then one row   *)
(* per [operator, value] of the store, in the order of the four nested     *)
(* items() loops. The rows are the values as the store holds them; the     *)
(* writer turns them into text afterwards.                                 *)
(***************************************************************************)
CsvTitles ==
    <<Str(sTitleName), Str(sTitleFilter),
      Str(<<"P", "r", "o", "d", "u", "c", "t">>), Str(<<"T", "y", "p", "e">>),
      Str(<<"O", "p", "e", "r", "a", "t", "o", "r">>), Str(<<"V", "a", "l", "u", "e">>)>>

RECURSIVE Flat(_)
Flat(seqs) == IF seqs = <<>> THEN <<>> ELSE Head(seqs) \o Flat(Tail(seqs))

\* the row as it would be with the value before the operator
CsvRow_ValueFirst(n, f, c, h, pair) == <<n, f, c, h, pair[2], pair[1]>>

CsvRow(n, f, c, h, pair) == <<n, f, c, h, pair[1], pair[2]>>

to_csv ==
    LET ofHeadings(n, f, c, d) == [k \in DOMAIN d |-> CsvRow(n, f, c, d[k].k, d[k].v)]
        ofCategories(n, f, d) ==
            Flat([k \in DOMAIN d |-> ofHeadings(n, f, d[k].k, d[k].v)])
        ofFilters(n, d) == Flat([k \in DOMAIN d |-> ofCategories(n, d[k].k, d[k].v)])
    IN <<CsvTitles>> \o Flat([k \in DOMAIN access_profile_dict |->
                                ofFilters(access_profile_dict[k].k,
                                          access_profile_dict[k].v)])

(***************************************************************************)
(* What the properties below speak of, read off the sheet: the data        *)
(* region, its cells, the trimmed lower-cased operator, the key path of a  *)
(* (row, heading), and the entries of the store.                           *)
(***************************************************************************)
Dedup(seq) ==
    LET first == SelectSeq([n \in DOMAIN seq |-> n],
                           LAMBDA n : \A m \in 1..(n - 1) : seq[m] # seq[n])
    IN [k \in DOMAIN first |-> seq[first[k]]]

Strip(chars) ==
    LET solid == {k \in DOMAIN chars : chars[k] # " "}
    IN IF solid = {} THEN <<>>
       ELSE SubSeq(chars,
                   CHOOSE k \in solid : \A m \in solid : k <= m,
                   CHOOSE k \in solid : \A m \in solid : k >= m)

CellAt(r, col) ==
    IF r \in DOMAIN sheet /\ col \in DOMAIN sheet[r] THEN sheet[r][col] ELSE None

NameCell(r) == CellAt(r, offset + 1)

FilterCell(r) == CellAt(r, offset + 2)

OperatorCell(r, h) == CellAt(r, offset + 3 + 2 * h)

ValueCell(r, h) == CellAt(r, offset + 4 + 2 * h)

HeadingIndexes == 0..(Len(headings) - 1)

EmptyName(cell) == cell = None \/ (IsStr(cell) /\ Len(cell.s) = 0)

DataStart == heading_row + 2

EndOfTableRows == {r \in DataStart..max_row : EmptyName(NameCell(r))}

\* the rows of the data region that precede the end-of-table row
TableRows ==
    IF heading_row = 0 THEN {}
    ELSE {r \in DataStart..max_row : \A e \in EndOfTableRows : r < e}

Trimmed(cell) == Lower(Strip(cell.s))

Inactive(cell) == IsStr(cell) /\ Trimmed(cell) \in {sNone, sNotInUse}

Active(cell) == IsStr(cell) /\ Trimmed(cell) \notin {sNone, sNotInUse}

\* the operator passes the test of the code as it is: lower-cased, not trimmed
Kept(cell) == IsStr(cell) /\ Lower(cell.s) \notin {sNone, sNotInUse}

BoundariesUpTo(h) ==
    Cardinality({j \in 0..h : At(headings, j) \in BoundaryHeadings})

HeadingCategory(h) ==
    IF InRange(categories, BoundariesUpTo(h))
    THEN At(categories, BoundariesUpTo(h))
    ELSE None

KeyPath(r, h) == <<NameCell(r), FilterCell(r), HeadingCategory(h), At(headings, h)>>

Pair(r, h) == <<OperatorCell(r, h), ValueCell(r, h)>>

HasEntry(path) ==
    /\ DHas(access_profile_dict, path[1])
    /\ DHas(DGet(access_profile_dict, path[1]), path[2])
    /\ DHas(DGet(DGet(access_profile_dict, path[1]), path[2]), path[3])
    /\ DHas(DGet(DGet(DGet(access_profile_dict, path[1]), path[2]), path[3]), path[4])

EntryAt(path) ==
    DGet(DGet(DGet(DGet(access_profile_dict, path[1]), path[2]), path[3]), path[4])

Addresses == TableRows \X HeadingIndexes

\* (r2, h2) comes after (r1, h1) in the order of the scan
Later(a, b) == b[1] > a[1] \/ (b[1] = a[1] /\ b[2] > a[2])

LastAddress(a) ==
    \A b \in Addresses : KeyPath(b[1], b[2]) = KeyPath(a[1], a[2]) => ~Later(a, b)

SoleAddress(a) ==
    \A b \in Addresses : KeyPath(b[1], b[2]) = KeyPath(a[1], a[2]) => b = a

\* the two header rows are two rows, each with the keywords of its own kind only
ProperHeader ==
    /\ category_row # 0
    /\ heading_row > category_row
    /\ \A col \in DOMAIN sheet[category_row] :
          sheet[category_row][col] \notin HeadingKeywords
    /\ \A col \in DOMAIN sheet[heading_row] :
          sheet[heading_row][col] \notin CategoryKeywords

(***************************************************************************)
(* C1. Inactive filtering, as claimed: after the parse, for every data row *)
(* and heading whose operator, trimmed and lower-cased, is 'none' or 'not  *)
(* in use', the store has no entry at that row's key path. Read on the key *)
(* paths that one row and heading alone address, so that an entry found    *)
(* there was stored from that very operator, and on sheets whose category  *)
(* row and heading row are two proper rows.                                *)
(***************************************************************************)
C1_InactiveNeverStored ==
    (pc = "done" /\ ProperHeader) =>
        \A a \in Addresses :
            (Inactive(OperatorCell(a[1], a[2])) /\ SoleAddress(a))
                => ~HasEntry(KeyPath(a[1], a[2]))

(***************************************************************************)
(* C2. Completeness: after a parse that completes, every row of the data   *)
(* region before the end-of-table row, and every heading under which its   *)
(* operator is active, has an entry at (name, filter, category of the      *)
(* heading, heading).                                                      *)
(***************************************************************************)
C2_Completeness ==
    pc = "done" =>
        \A a \in Addresses :
            Active(OperatorCell(a[1], a[2])) => HasEntry(KeyPath(a[1], a[2]))

C2_Witness ==
    /\ pc = "done"
    /\ Cardinality(TableRows) >= 2
    /\ \E a \in Addresses :
          /\ Active(OperatorCell(a[1], a[2]))
          /\ BoundariesUpTo(a[2]) = 1
          /\ HasEntry(KeyPath(a[1], a[2]))

(***************************************************************************)
(* C3. Two data rows with the same name and different filters do not       *)
(* overwrite each other: after the parse every active entry of either row  *)
(* is in the store under the row's own filter, and the pair found there    *)
(* comes from a row of that same name and filter.                          *)
(***************************************************************************)
SameKeyPairs(a) ==
    {Pair(b[1], b[2]) : b \in {c \in Addresses :
                                 KeyPath(c[1], c[2]) = KeyPath(a[1], a[2])}}

C3_FiltersDoNotOverwrite ==
    pc = "done" =>
        \A a \in Addresses : \A r2 \in TableRows :
            ( /\ NameCell(r2) = NameCell(a[1])
              /\ FilterCell(r2) # FilterCell(a[1])
              /\ Active(OperatorCell(a[1], a[2])) )
            => /\ HasEntry(KeyPath(a[1], a[2]))
               /\ EntryAt(KeyPath(a[1], a[2])) \in SameKeyPairs(a)

C3_Witness ==
    /\ pc = "done"
    /\ \E a \in Addresses : \E r2 \in TableRows :
          /\ r2 > a[1]
          /\ NameCell(r2) = NameCell(a[1])
          /\ FilterCell(r2) # FilterCell(a[1])
          /\ Active(OperatorCell(a[1], a[2]))
          /\ Active(OperatorCell(r2, a[2]))
          /\ Pair(r2, a[2]) # Pair(a[1], a[2])
          /\ EntryAt(KeyPath(a[1], a[2])) = Pair(a[1], a[2])
          /\ EntryAt(KeyPath(r2, a[2])) = Pair(r2, a[2])

(***************************************************************************)
(* C4, as claimed. Last-write-wins: when an earlier row addresses the same *)
(* key path with a differing operator, the value stored after the parse is *)
(* the [operator, value] of the last row that addresses the key path       *)
(* (read on sheets whose category row and heading row are two proper       *)
(* rows).                                                                  *)
(***************************************************************************)
Conflicting(a) ==
    \E b \in Addresses :
        /\ b[1] < a[1]
        /\ KeyPath(b[1], b[2]) = KeyPath(a[1], a[2])
        /\ OperatorCell(b[1], b[2]) # OperatorCell(a[1], a[2])

RowsInOrder(S) ==
    IF S = {} THEN <<>>
    ELSE LET lo == CHOOSE r \in S : \A q \in S : r <= q
         IN [n \in 1..Cardinality(S) |-> lo + n - 1]

C5_EndOfTable ==
    (pc \in {"sample", "done"} /\ heading_row # 0) =>
        /\ decoded = RowsInOrder(TableRows)
        /\ \A e \in EndOfTableRows : \A n \in DOMAIN decoded : decoded[n] < e
        /\ IF EndOfTableRows = {} THEN eot_row = 0
           ELSE eot_row \in EndOfTableRows /\ \A e \in EndOfTableRows : eot_row <= e
        /\ \A a \in Addresses :
              Active(OperatorCell(a[1], a[2])) => HasEntry(KeyPath(a[1], a[2]))

C5_Witness ==
    /\ pc = "done"
    /\ eot_row # 0
    /\ eot_row < max_row
    /\ ~EmptyName(NameCell(eot_row + 1))
    /\ decoded # <<>>
    /\ \E a \in Addresses : HasEntry(KeyPath(a[1], a[2]))

(***************************************************************************)
(* C6, as claimed. Order preservation: the profile keys of the nested      *)
(* output appear in the order in which the names were first seen in the    *)
(* data rows (read on sheets whose category row and heading row are two    *)
(* proper rows).                                                           *)
(***************************************************************************)
ProfileKeys == [n \in DOMAIN to_json |-> to_json[n].k]

NamesOf(rows) == [n \in DOMAIN rows |-> JsonKey(NameCell(rows[n]))]

FirstSeenOrder == Dedup(NamesOf(RowsInOrder(TableRows)))

C6_FirstSeenOrder_AsClaimed ==
    (pc = "done" /\ ProperHeader) =>
        ProfileKeys = SelectSeq(FirstSeenOrder, LAMBDA n : n \in Range(ProfileKeys))

(***************************************************************************)
(* C6, amended. The profile keys appear in the order in which the names    *)
(* first had an entry stored: the order of the first row of each name in   *)
(* which an operator passed the filter.                                    *)
(***************************************************************************)
StoringRows ==
    SelectSeq(RowsInOrder(TableRows),
              LAMBDA r : \E h \in HeadingIndexes : Kept(OperatorCell(r, h)))

FirstStoredOrder == Dedup(NamesOf(StoringRows))

C6_FirstStoredOrder ==
    pc = "done" => ProfileKeys = FirstStoredOrder

C6_Witness ==
    /\ pc = "done"
    /\ Len(ProfileKeys) = 2
    /\ FirstSeenOrder # FirstStoredOrder
    /\ Len(FirstSeenOrder) = 2

(***************************************************************************)
(* C7. The category row the scan chose is the first row of the sheet with  *)
(* a cell equal to a category keyword: no row above it has such a cell,    *)
(* and a scan that chose none has passed no such row.                      *)
(***************************************************************************)
HasCategoryCell(r) == \E col \in DOMAIN sheet[r] : sheet[r][col] \in CategoryKeywords

HasHeadingCell(r) == \E col \in DOMAIN sheet[r] : sheet[r][col] \in HeadingKeywords

C7_FirstCategoryRow ==
    /\ category_row # 0 =>
          /\ HasCategoryCell(category_row)
          /\ \A r \in 1..(category_row - 1) : ~HasCategoryCell(r)
          /\ categories = NonNone(sheet[category_row])
    /\ (category_row = 0 /\ pc # "categories") =>
          \A r \in DOMAIN sheet : ~HasCategoryCell(r)
    /\ (category_row = 0 /\ pc = "categories") =>
          \A r \in 1..(it - 1) : ~HasCategoryCell(r)

C7_Witness ==
    /\ category_row = 2
    /\ HasHeadingCell(1)
    /\ pc = "done"

(***************************************************************************)
(* C8, as claimed. The heading row the scan chose lies strictly below the  *)
(* category row and is the first row below it with a heading keyword.      *)
(***************************************************************************)
C8_HeadingRowBelowCategoryRow ==
    heading_row # 0 =>
        /\ heading_row > category_row
        /\ HasHeadingCell(heading_row)
        /\ \A r \in (category_row + 1)..(heading_row - 1) : ~HasHeadingCell(r)

(***************************************************************************)
(* C9, as claimed. StructureNotFound: a parse that located no category row *)
(* or no heading row ends with a structural error (the ValueError the code *)
(* raises for a sheet it cannot lay out), and has decoded no data row.     *)
(***************************************************************************)
C9_StructureNotFound ==
    (pc \in {"done", "raised"} /\ (category_row = 0 \/ heading_row = 0)) =>
        /\ pc = "raised"
        /\ error.type = "ValueError"
        /\ decoded = <<>>

(***************************************************************************)
(* C10. Data start: the row right after the heading row is never handled   *)
(* as a data row, and the first row the data loop handles is the heading   *)
(* row + 2.                                                                *)
(***************************************************************************)
DataLoopRows == Range(decoded) \cup (IF eot_row = 0 THEN {} ELSE {eot_row})

C10_DataStart ==
    /\ heading_row # 0 =>
          /\ (heading_row + 1) \notin DataLoopRows
          /\ \A r \in DataLoopRows : r >= heading_row + 2
          /\ DataLoopRows # {} => (heading_row + 2) \in DataLoopRows
          /\ pc \in {"rows", "pairs"} => it >= heading_row + 2
    /\ heading_row = 0 => DataLoopRows = {}

C10_Witness ==
    /\ heading_row = 2
    /\ decoded # <<>>
    /\ decoded[1] = 4
    /\ pc = "done"

(***************************************************************************)
(* What the properties of the mapper speak of, read off the worksheet: the *)
(* labelled cells of the category row and the heading row, and the column  *)
(* range of a category, [its column, the column of the next category), the *)
(* last one open-ended.                                                    *)
(***************************************************************************)
Columns == 1..Len(sheet[1])

Labelled(r, c) == sheet[r][c] # None /\ Strip(sheet[r][c].s) # <<>>

LabelAt(r, c) == Str(Strip(sheet[r][c].s))

\* the category row and the heading row are the first two rows of the sheet
HeaderOnTop ==
    /\ \E c \in Columns : Labelled(1, c) /\ Strip(sheet[1][c].s) \in category_keywords
    /\ \E c \in Columns : Labelled(2, c) /\ Strip(sheet[2][c].s) \in heading_keywords

CategoryColumns == {c \in Columns : Labelled(1, c)}

HeadingColumns == {c \in Columns : Labelled(2, c)}

\* the category columns whose range contains column c (at most one)
Containing(c) ==
    {k \in CategoryColumns :
        k <= c /\ \A next \in CategoryColumns : next > k => c < next}

MappedCategory(label) ==
    IF DHas(heading_to_category, label) THEN DGet(heading_to_category, label) ELSE None

(***************************************************************************)
(* C11, as claimed. Category range invariant: once the mapping is built,   *)
(* every heading of the heading row is mapped to the category whose column *)
(* range contains the heading's column, whatever the two rows are.         *)
(***************************************************************************)
C11_CategoryRangeInvariant ==
    (mapper_pc = "ready" /\ HeaderOnTop) =>
        \A c \in HeadingColumns : \A k \in Containing(c) :
            MappedCategory(LabelAt(2, c)) = LabelAt(1, k)

(***************************************************************************)
(* C12, as claimed. Fallback: a heading whose column no category range     *)
(* contains is mapped to the category of the lowest column, a heading      *)
(* asked for that has no recorded mapping gets that category too, and in   *)
(* both cases a warning is recorded (read on category rows whose labels    *)
(* are all different, so that each label has one column).                  *)
(***************************************************************************)
FirstCategory ==
    LabelAt(1, CHOOSE k \in CategoryColumns : \A other \in CategoryColumns : k <= other)

\* the heading label of column c stands in no other column of the heading row
OnlyColumnOf(c) ==
    \A other \in HeadingColumns : LabelAt(2, other) = LabelAt(2, c) => other = c

\* no category label stands in two columns of the category row
DistinctCategories ==
    \A k \in CategoryColumns : \A other \in CategoryColumns :
        LabelAt(1, other) = LabelAt(1, k) => other = k

C12_FallbackToFirstCategory ==
    (mapper_pc = "ready" /\ DistinctCategories) =>
        /\ \A c \in HeadingColumns :
              (Containing(c) = {} /\ OnlyColumnOf(c)) =>
                  /\ MappedCategory(LabelAt(2, c)) = FirstCategory
                  /\ warnings # <<>>
        /\ \A n \in DOMAIN lookup :
              (~lookup[n].raised /\ ~DHas(heading_to_category, lookup[n].heading)) =>
                  /\ lookup[n].category = FirstCategory
                  /\ warnings # <<>>

(***************************************************************************)
(* The key paths of the store, <<name, filter, category, heading>>.        *)
(***************************************************************************)
StoredPaths ==
    UNION { UNION { UNION { { <<access_profile_dict[n].k,
                                 access_profile_dict[n].v[f].k,
                                 access_profile_dict[n].v[f].v[c].k,
                                 access_profile_dict[n].v[f].v[c].v[h].k>> :
                               h \in DOMAIN access_profile_dict[n].v[f].v[c].v } :
                            c \in DOMAIN access_profile_dict[n].v[f].v } :
                    f \in DOMAIN access_profile_dict[n].v } :
            n \in DOMAIN access_profile_dict }

(***************************************************************************)
(* C13. Positional category assignment: in every data row the cursor is 0  *)
(* before the first heading and, before heading i, is the number of        *)
(* headings among headings[0..i-1] that are one of 'Agent Groups', 'Call   *)
(* Barring Profiles', 'Queries', 'Pacing Profiles', 'Flow Services'; and   *)
(* every entry of the store stands under categories[k] for a heading i of  *)
(* its label, k being the number of such headings among headings[0..i].    *)
(***************************************************************************)
C13_BoundaryLabels ==
    {Str(sAgentGroups), Str(sCallBarringProfiles), Str(sQueries),
     Str(sPacingProfiles), Str(sFlowServices)}

C13_BoundariesAmong(last) ==
    Cardinality({j \in 0..last : headings[j + 1] \in C13_BoundaryLabels})

C13_PositionalCursor ==
    /\ pc = "pairs" => cat_index = C13_BoundariesAmong(i - 1)
    /\ \A path \in StoredPaths :
          \E h \in 0..(Len(headings) - 1) :
              /\ headings[h + 1] = path[4]
              /\ C13_BoundariesAmong(h) < Len(categories)
              /\ categories[C13_BoundariesAmong(h) + 1] = path[3]

C13_Witness ==
    /\ pc = "done"
    /\ Len(categories) = 3
    /\ \E path \in StoredPaths : path[4] = Str(sActions) /\ path[3] = categories[1]
    /\ \E path \in StoredPaths : path[4] = Str(sAgentGroups) /\ path[3] = categories[2]
    /\ \E path \in StoredPaths : path[4] = Str(sQueries) /\ path[3] = categories[3]

(***************************************************************************)
(* C14. Pair positions: the operator and value stored for the i-th heading *)
(* of a row are the cells at positions 2*i and 2*i+1 counted from just     *)
(* after the name and filter cells, also when earlier cells of the row are *)
(* empty. At any time every entry of the store is the pair at those        *)
(* positions of a decoded row with that key path, and after the parse it   *)
(* is the pair of the last such row whose operator was kept.               *)
(***************************************************************************)
C14_Cells(r, h) ==
    <<CellAt(r, offset + 2 + 2 * h + 1), CellAt(r, offset + 2 + (2 * h + 1) + 1)>>

C14_PairPositions ==
    /\ \A path \in StoredPaths :
          \E r \in Range(decoded) : \E h \in HeadingIndexes :
              KeyPath(r, h) = path /\ EntryAt(path) = C14_Cells(r, h)
    /\ pc = "done" =>
          \A a \in Addresses :
              ( /\ Kept(OperatorCell(a[1], a[2]))
                /\ \A b \in Addresses :
                      (KeyPath(b[1], b[2]) = KeyPath(a[1], a[2]) /\ Later(a, b))
                          => ~Kept(OperatorCell(b[1], b[2])) )
              => /\ HasEntry(KeyPath(a[1], a[2]))
                 /\ EntryAt(KeyPath(a[1], a[2])) = C14_Cells(a[1], a[2])

C14_Witness ==
    /\ pc = "done"
    /\ \E a \in Addresses :
          /\ a[2] = 2
          /\ CellAt(a[1], offset + 4) = None
          /\ CellAt(a[1], offset + 6) = None
          /\ HasEntry(KeyPath(a[1], a[2]))
          /\ EntryAt(KeyPath(a[1], a[2])) = C14_Cells(a[1], a[2])
          /\ C14_Cells(a[1], a[2]) = <<Str(sAllow), Str(sQ2)>>

(***************************************************************************)
(* C15, as claimed. A malformed data row (too few cells for the headings,  *)
(* or an operator cell that is no text) does not abort the parse: the      *)
(* parse completes, a warning is counted, no entry comes from that row,    *)
(* and every later well-formed row has its active entries in the store     *)
(* (read on sheets whose category row and heading row are two proper       *)
(* rows).                                                                  *)
(***************************************************************************)
Malformed(r) == \E h \in HeadingIndexes : ~IsStr(OperatorCell(r, h))

\* an entry at the key path of (r, h) that no well-formed row accounts for
EntryFrom(r, h) ==
    /\ HasEntry(KeyPath(r, h))
    /\ \A b \in Addresses :
          (KeyPath(b[1], b[2]) = KeyPath(r, h) /\ ~Malformed(b[1]))
              => ~Active(OperatorCell(b[1], b[2]))

C15_MalformedRowSkipped ==
    (pc \in {"done", "raised"} /\ ProperHeader) =>
        \A r \in TableRows :
            Malformed(r) =>
                /\ pc = "done"
                /\ warnings # <<>>
                /\ \A h \in HeadingIndexes : ~EntryFrom(r, h)
                /\ \A later \in TableRows : \A h \in HeadingIndexes :
                      ( /\ later > r
                        /\ ~Malformed(later)
                        /\ Active(OperatorCell(later, h)) )
                      => HasEntry(KeyPath(later, h))


\* the titles of the sheets of the workbook
Titles == {workbook[n].title : n \in DOMAIN workbook}

\* __init__ went past the choice of the sheet
Selected == pc # "select"

\* no row of any sheet was read
NothingParsed ==
    /\ current_row = 0
    /\ categories = <<>>
    /\ access_profile_dict = EmptyDict

(***************************************************************************)
(* C16: whenever the sheet name asked for is the title of no sheet of the  *)
(* workbook, whatever the number of its sheets, the parse fails with an    *)
(* error that lists the titles of the workbook and no sheet is parsed.     *)
(***************************************************************************)
C16_SheetNotFoundByName ==
    (Selected /\ sheetname # None /\ sheetname.s \notin Titles)
        => /\ pc = "raised"
           /\ error.type = "ValueError"
           /\ error.args = <<sheetname.s, [n \in DOMAIN workbook |-> workbook[n].title]>>
           /\ NothingParsed

(***************************************************************************)
(* C17: with several sheets and no sheet name asked for, when no title     *)
(* contains 'accessprofiles' in any letter case, the parse ends in the     *)
(* sheet-not-found error and in no other failure, and no sheet is parsed.  *)
(***************************************************************************)
C17_SheetNotFoundBySubstring ==
    (/\ Selected
     /\ sheetname = None
     /\ Len(workbook) > 1
     /\ \A title \in Titles : ~Contains(Lower(title), sMarker))
        => /\ pc = "raised"
           /\ error.type = "ValueError"
           /\ error.args[2] = [n \in DOMAIN workbook |-> workbook[n].title]
           /\ NothingParsed


(***************************************************************************)
(* C18: no parse returns with zero profiles in the store: a parse that     *)
(* read all its rows and stored nothing ends in an error, with or without  *)
(* the debug flag.                                                         *)
(***************************************************************************)
C18_EmptyResultIsFatal ==
    pc = "done" => access_profile_dict # EmptyDict


\* the grid of the scenario: categories at columns 2 and 5, headings at 2, 3 and 5
C20_Grid == <<WideCategoryRow, WideHeadingRow, WideTitleRow, ScenarioRow>>

C20_String(chars) == [t |-> "string", s |-> chars]

\* {"P1": {"F1": {"UC": {"Actions": ["Allow", "G1"]}, "Flow": {"Queries": ["Deny", "Q1"]}}}}
C20_Output ==
    <<[k |-> sP1, v |->
        <<[k |-> sF1, v |->
            <<[k |-> sUC, v |->
                <<[k |-> sActions,
                   v |-> <<C20_String(sAllow), C20_String(sG1)>>]>>],
              [k |-> sFlow, v |->
                <<[k |-> sQueries,
                   v |-> <<C20_String(sDeny), C20_String(sQ1)>>]>>]>>]>>]>>

(***************************************************************************)
(* C20: the parse of the grid with categories UC and Flow, headings        *)
(* Actions, Menus and Queries and the one row P1 / F1 with the pairs       *)
(* (Allow, G1), (none, -), (Deny, Q1) gives exactly Actions under UC and   *)
(* Queries under Flow for P1 / F1, and no Menus entry.                     *)
(***************************************************************************)
C20_ScenarioOne ==
    (sheet = C20_Grid /\ pc = "done") => to_json = C20_Output

C20_Witness ==
    /\ sheet = C20_Grid
    /\ pc = "done"
    /\ Len(access_profile_dict) = 1


\* where a key stands in a dict
C22_IndexOf(d, key) == CHOOSE n \in DOMAIN d : d[n].k = key

\* where a key path of the store stands at each of the four levels
C22_Place(path) ==
    LET byFilter == DGet(access_profile_dict, path[1])
        byCategory == DGet(byFilter, path[2])
        byHeading == DGet(byCategory, path[3])
    IN <<C22_IndexOf(access_profile_dict, path[1]), C22_IndexOf(byFilter, path[2]),
         C22_IndexOf(byCategory, path[3]), C22_IndexOf(byHeading, path[4])>>

C22_Before(a, b) ==
    \E k \in 1..4 : a[k] < b[k] /\ \A j \in 1..(k - 1) : a[j] = b[j]

C22_PathOf(record) == SubSeq(record, 1, 4)

(***************************************************************************)
(* C22. Flat export: the rows are the six titles and then exactly one row  *)
(* per entry of the store, in the order the nested store is iterated; the  *)
(* six fields of a row are the profile, filter, category and heading of    *)
(* its entry and then its operator and its value.                          *)
(***************************************************************************)
C22_FlatExport ==
    LET csv == to_csv
        place == [k \in 2..Len(csv) |-> C22_Place(C22_PathOf(csv[k]))]
    IN /\ Len(csv) = 1 + Cardinality(StoredPaths)
       /\ Len(csv[1]) = 6
       /\ [k \in 1..6 |-> csv[1][k].s] =
             <<sTitleName, sTitleFilter, <<"P", "r", "o", "d", "u", "c", "t">>,
               <<"T", "y", "p", "e">>, <<"O", "p", "e", "r", "a", "t", "o", "r">>,
               <<"V", "a", "l", "u", "e">>>>
       /\ \A k \in 2..Len(csv) :
             /\ Len(csv[k]) = 6
             /\ HasEntry(C22_PathOf(csv[k]))
             /\ <<csv[k][5], csv[k][6]>> = EntryAt(C22_PathOf(csv[k]))
             /\ k < Len(csv) => C22_Before(place[k], place[k + 1])

C22_Witness ==
    LET csv == to_csv
    IN /\ pc = "done"
       /\ Len(access_profile_dict) >= 2
       /\ Len(csv) >= 4
       /\ \E k \in 2..Len(csv) : csv[k][5] # csv[k][6]

\* a dict: entries of a key and a value
C23_IsDict(x) == \A k \in DOMAIN x : DOMAIN x[k] = {"k", "v"}

\* a cell of the sheet: None or a str
C23_IsCell(x) == DOMAIN x = {"t", "s"}

\* [operator, value]
C23_IsPair(x) == Len(x) = 2 /\ C23_IsCell(x[1]) /\ C23_IsCell(x[2])

\* the name and the filter are those of one row below the column-title row
C23_RowKeys(n, f) ==
    \E r \in (heading_row + 2)..max_row : NameCell(r) = n /\ FilterCell(r) = f

(***************************************************************************)
(* C23. Nested output shape: in every state the store is a dict by profile *)
(* name of dicts by filter name of dicts by category name of dicts by      *)
(* heading name of [operator, value] pairs: the keys of the first two      *)
(* levels are the name and the filter of a data row (never a fixed key     *)
(* 'filter'), those of the third are categories, those of the fourth are   *)
(* headings, and a value of any other shape stands nowhere.                *)
(***************************************************************************)
C23_NestedShape ==
    /\ C23_IsDict(access_profile_dict)
    /\ \A n \in DOMAIN access_profile_dict :
        LET byFilter == access_profile_dict[n].v
        IN /\ C23_IsCell(access_profile_dict[n].k)
           /\ C23_IsDict(byFilter)
           /\ \A f \in DOMAIN byFilter :
               LET byCategory == byFilter[f].v
               IN /\ C23_IsCell(byFilter[f].k)
                  /\ C23_RowKeys(access_profile_dict[n].k, byFilter[f].k)
                  /\ C23_IsDict(byCategory)
                  /\ \A c \in DOMAIN byCategory :
                      LET byHeading == byCategory[c].v
                      IN /\ byCategory[c].k \in Range(categories)
                         /\ C23_IsDict(byHeading)
                         /\ \A h \in DOMAIN byHeading :
                               /\ byHeading[h].k \in Range(headings)
                               /\ C23_IsPair(byHeading[h].v)

C23_Witness ==
    /\ pc = "done"
    /\ \E n \in DOMAIN access_profile_dict :
          /\ Len(access_profile_dict[n].v) >= 2
          /\ \E f \in DOMAIN access_profile_dict[n].v :
                Len(access_profile_dict[n].v[f].v) >= 2


\* the sheet rows (1-based) parse_excel located, its frame indices being 0-based
C25_CategoryRow == categories_row(DataFrame(sheet)) + 1

C25_HeadingRow == headings_row(DataFrame(sheet)) + 1

\* the labels of a sheet row with their columns
C25_LabelsOf(r) == {<<LabelAt(r, c), c>> : c \in {k \in Columns : Labelled(r, k)}}

\* the entries of a positions dict
C25_Items(positions) == {<<positions[n].k, positions[n].v>> : n \in DOMAIN positions}

(***************************************************************************)
(* C25. The mapping is built from the rows the header scan located: once   *)
(* the mapper has read its positions, on a sheet whose category row is not *)
(* the first row or whose heading row is not the second as on any other,   *)
(* the category positions are labels of the located category row, the      *)
(* heading positions are labels of the located heading row, and the        *)
(* constructor has not failed.                                             *)
(***************************************************************************)
C25_MappingUsesLocatedRows ==
    mapper_pc \in {"build_mapping", "ready", "raised"} =>
        /\ mapper_pc # "raised"
        /\ C25_Items(categories_positions) \subseteq C25_LabelsOf(C25_CategoryRow)
        /\ C25_Items(headings_positions) \subseteq C25_LabelsOf(C25_HeadingRow)


\* the row the data loop is decoding
C24_Row == sheet[decoded[Len(decoded)]]

\* the cell is a str holding 'name' in any letter case
C24_HoldsName(cell) == IsStr(cell) /\ Contains(Lower(cell.s), sName)

\* the columns (1-based) of the sub-header row whose cell holds 'name'
C24_NameColumns ==
    {c \in DOMAIN sheet[heading_row + 1] : C24_HoldsName(sheet[heading_row + 1][c])}

\* the columns of the row being decoded, from column c on, whose cell is not empty
C24_Filled(c) ==
    {k \in DOMAIN C24_Row : k >= c /\ C24_Row[k] # None /\ C24_Row[k] # Str(<<>>)}

C24_First(S) == CHOOSE k \in S : \A m \in S : k <= m

(***************************************************************************)
(* C24. Name and filter location: the offset is the index of the first     *)
(* cell of the sub-header row that holds 'name' in any letter case, and    *)
(* while a data row is decoded its name is the first non-empty cell at or  *)
(* after the offset and its filter the next non-empty cell.                *)
(***************************************************************************)
C24_NameAndFilterLocation ==
    pc = "pairs" =>
        /\ C24_NameColumns # {}
        /\ offset + 1 = C24_First(C24_NameColumns)
        /\ C24_Filled(offset + 1) # {}
        /\ name = C24_Row[C24_First(C24_Filled(offset + 1))]
        /\ C24_Filled(C24_First(C24_Filled(offset + 1)) + 1) # {}
              => filter = C24_Row[C24_First(C24_Filled(C24_First(C24_Filled(offset + 1)) + 1))]


\* the cursor as the heading about to be decoded leaves it
C27_Cursor ==
    IF At(headings, i) \in C13_BoundaryLabels THEN cat_index + 1 ELSE cat_index

\* the pair about to be decoded is there and its operator is kept: an entry is stored
C27_Stores ==
    /\ pc = "pairs"
    /\ InRange(row, 2 * i) /\ InRange(row, 2 * i + 1)
    /\ Kept(At(row, 2 * i))

(***************************************************************************)
(* C27. Whenever the decoding of a data row is about to store an entry,    *)
(* the category cursor is an index into the categories list: it is below   *)
(* the number of non-empty cells of the category row, whatever category    *)
(* row and heading row the header scan returned.                           *)
(***************************************************************************)
C27_CursorInRange ==
    C27_Stores => C27_Cursor < Len(categories)


(***************************************************************************)
(* C28. No empty containers: in every state, during the parse and after    *)
(* it, every profile of the store has a filter, every filter a category    *)
(* and every category a heading entry.                                     *)
(***************************************************************************)
C28_NoEmptyContainers ==
    \A n \in DOMAIN access_profile_dict :
        /\ access_profile_dict[n].v # EmptyDict
        /\ \A f \in DOMAIN access_profile_dict[n].v :
            /\ access_profile_dict[n].v[f].v # EmptyDict
            /\ \A c \in DOMAIN access_profile_dict[n].v[f].v :
                  access_profile_dict[n].v[f].v[c].v # EmptyDict


\* both constructors have returned
C21_BothParsed == pc = "done" /\ mapper_pc = "parsed"

C21_Keys(json) == {json[n].k : n \in DOMAIN json}

\* a JSON object as the set of its members, each with the keys that lead to it
C21_Members(json, path) ==
    {<<path \o <<json[n].k>>, json[n].v>> : n \in DOMAIN json}

C21_Below(members) ==
    UNION {C21_Members(m[2], m[1]) : m \in members}

\* the [operator, value] arrays of the two outputs with their key paths
C21_LeavesV1 ==
    C21_Below(C21_Below(C21_Below(C21_Members(to_json, <<>>))))

C21_LeavesV2 ==
    C21_Below(C21_Below(C21_Members(v2_to_json, <<>>)))

(***************************************************************************)
(* C21. V1/V2 equivalence: when both parsers have parsed the same          *)
(* workbook, their JSON outputs are the same: the same profile keys and    *)
(* under every profile the same content, whatever the order of the keys.   *)
(***************************************************************************)
C21_SameJson ==
    C21_BothParsed =>
        /\ C21_Keys(to_json) = C21_Keys(v2_to_json)
        /\ C21_LeavesV1 = C21_LeavesV2

(***************************************************************************)
(* C26. Warning cap: whatever the number of data rows that fail to decode, *)
(* the error counter equals the number of failed rows, at most the first   *)
(* 10 failures produce a per-row warning, and the total count is reported  *)
(* as a summary exactly when the counter is greater than zero.             *)
(* A row the loop has gone through was skipped, counted as processed, or   *)
(* counted as failed.                                                      *)
(***************************************************************************)
C26_InLoop == data_row_idx > 0 /\ mapper_pc \in {"rows", "parsed", "raised"}

C26_AfterLoop == data_row_idx > max_row /\ mapper_pc \in {"parsed", "raised"}

C26_IsDataStart(r) ==
    /\ sheet[r][3] # None
    /\ LET chars == StripStr(sheet[r][3].s)
       IN /\ Len(chars) >= 6
          /\ SubSeq(chars, 1, 6) = <<"T", "E", "A", "M", " ", "-">>

C26_Start == CHOOSE r \in 1..max_row :
                /\ C26_IsDataStart(r)
                /\ \A q \in 1..(r - 1) : ~C26_IsDataStart(q)

C26_Skipped(r) ==
    LET cells == SelectSeq(sheet[r], LAMBDA c : c # None)
    IN \/ Len(cells) < 2
       \/ StripStr(cells[1].s) = <<>>
       \/ StripStr(cells[2].s) = <<>>

C26_Visited == C26_Start..(data_row_idx - 1)

\* the rows gone through that the loop cannot have skipped
C26_Decodable == {r \in C26_Visited : ~C26_Skipped(r)}

C26_RowWarnings == SelectSeq(warnings, LAMBDA w : DOMAIN w = {"row"})

C26_Summaries == SelectSeq(warnings, LAMBDA w : DOMAIN w = {"rows"})

\* every row gone through is counted at most once, as processed or as
\* failed, and one that cannot be skipped is counted
C26_Counted ==
    C26_InLoop =>
        /\ processed_count <= Cardinality(C26_Decodable)
        /\ processed_count + error_count >= Cardinality(C26_Decodable)
        /\ processed_count + error_count <= Cardinality(C26_Visited)

C26_Capped ==
    C26_InLoop =>
        Len(C26_RowWarnings) = IF error_count <= 10 THEN error_count ELSE 10

C26_Summarised ==
    C26_AfterLoop =>
        C26_Summaries = IF error_count > 0 THEN <<[rows |-> error_count]>> ELSE <<>>

C26_ElevenFailures == C26_AfterLoop /\ error_count = 11 /\ processed_count > 0

=============================================================================
